---- MODULE Spec2Model ----
(***************************************************************************)
(* A model of the shared reconciliation core of the OCI resource plugin:   *)
(* the read-after-write decorator (pkg/provisioner/readafterwrite.go), the *)
(* error classifier and result builders (pkg/util/errors.go), the plugin   *)
(* entry points (oci.go) and the work-request poller with the cluster      *)
(* operator that uses it (pkg/provisioner/containerengine).                *)
(***************************************************************************)
EXTENDS Integers, Sequences, FiniteSets, TLC

VARIABLES
    raw,      \* the last call made through the read-after-write decorator
    eh,       \* the last call of an error handler of pkg/util/errors.go
    plg,      \* the last call of a Plugin entry point of oci.go
    wrs,      \* the provider's work requests, by handle
    poll,     \* the last Status poll of a work request
    seen,     \* per handle, the statuses that polls of it have returned so far
    opc,      \* the last call of an operator that works asynchronously
    cloud,    \* the provider's side of one resource, and the calls it received
    del,      \* the Delete calls in flight, each with its position
    apd,      \* the last call of ApplyPatchDocument
    reg,      \* the registry's table and the calls of Register and Get
    cli,      \* a Clients bundle and the getter calls in flight
    tags,     \* the last call of a tag conversion of pkg/util/util.go
    nsg,      \* a security rule's native ids as Create and List return them
    upd       \* the Update calls in flight on one resource

vars == <<raw, eh, plg, wrs, poll, seen, opc, cloud, del, apd, reg, cli, tags, nsg, upd>>

(***************************************************************************)
(* Bounds of the model.                                                    *)
(***************************************************************************)
MaxWrap == 2        \* layers of fmt.Errorf("%w") wrapping around a cause
MaxResources == 2   \* entries of a work request's resource list
MaxErrItems == 2    \* entries of a work request's error list

(***************************************************************************)
(* Values.  A Go pointer is a sequence: <<>> is nil, <<v>> points to v.    *)
(* A Go string / byte slice holding properties is a sequence of bytes.     *)
(***************************************************************************)
NilPtr == <<>>

Ptr(v) == <<v>>

Deref(p) == p[1]

Bytes == {<<>>, <<1>>, <<1, 2>>}

\* json.RawMessage(s): the conversion of a string to a byte slice copies
\* the string's bytes one by one.
RawMessage(s) == [i \in 1..Len(s) |-> s[i]]

OperationStatusSuccess == "Success"

OperationStatusFailure == "Failure"

OperationStatusInProgress == "InProgress"

OperationErrorCodeNotSet == ""

OperationErrorCodeNotFound == "NotFound"

OperationErrorCodeResourceConflict == "ResourceConflict"

OperationErrorCodeThrottling == "Throttling"

OperationErrorCodeServiceInternalError == "ServiceInternalError"

OperationErrorCodeServiceTimeout == "ServiceTimeout"


OperationCreate == "Create"

OperationUpdate == "Update"

OperationDelete == "Delete"

OperationCheckStatus == "CheckStatus"

\* resource.ProgressResult; a field the code does not set keeps Go's zero
\* value.  StatusMessage is the sequence of the pieces the text is built of.
ProgressResult(operation, status, errorCode, statusMessage, nativeID, requestID, props) ==
    [Operation |-> operation, OperationStatus |-> status, ErrorCode |-> errorCode,
     StatusMessage |-> statusMessage, NativeID |-> nativeID, RequestID |-> requestID,
     ResourceProperties |-> props]

(***************************************************************************)
(* Error values.  An error is the chain of its layers, outermost first;    *)
(* the nil error is the empty chain.  A layer is a fmt.Errorf("...: %w")   *)
(* wrapper, a plain error (errors.New, no cause) or a provider service     *)
(* error (common.ServiceError: HTTP status, provider code, message).  The  *)
(* SDK's service error has no Unwrap method, so it ends its chain.         *)
(***************************************************************************)
NilErr == <<>>

WrapLayer(text) == [kind |-> "wrap", text |-> text, status |-> 0, code |-> ""]

PlainLayer(text) == [kind |-> "plain", text |-> text, status |-> 0, code |-> ""]

ServiceLayer(status, code, message) ==
    [kind |-> "svc", text |-> message, status |-> status, code |-> code]

\* fmt.Errorf(text + ": %w", err)
Errorf(text, err) == <<WrapLayer(text)>> \o err

HTTPStatuses == {400, 401, 404, 409, 429, 500, 502, 503, 504}

ProviderCodes == {"NotAuthorizedOrNotFound", "TooManyRequests", "InvalidParameter"}

ServiceErrors ==
    {<<ServiceLayer(st, c, "denied")>> : st \in HTTPStatuses, c \in ProviderCodes}

PlainErrors == {<<PlainLayer("boom")>>, <<PlainLayer("context canceled")>>}

RECURSIVE Wrapped(_, _)
\* the errors of set S under exactly n layers of wrapping
Wrapped(S, n) == IF n = 0 THEN S ELSE {Errorf("ctx", e) : e \in Wrapped(S, n - 1)}

\* every non-nil error the model feeds to the classifier
Errors == UNION {Wrapped(ServiceErrors \cup PlainErrors, n) : n \in 0..MaxWrap}

\* errors.Unwrap: the cause of a wrapper, nil for an error with no Unwrap
Unwrap(err) ==
    IF err # NilErr /\ Head(err).kind = "wrap" THEN Tail(err) ELSE NilErr

\* common.IsServiceError: a type assertion on the error value itself
IsServiceError(err) == err # NilErr /\ Head(err).kind = "svc"

RECURSIVE FindServiceError(_)
\* the unwrap loop: the first service error of the chain, NilErr when none
FindServiceError(err) ==
    IF err = NilErr THEN NilErr
    ELSE IF IsServiceError(err) THEN err
    ELSE FindServiceError(Unwrap(err))

\* the switches of HandleOCIServiceError in the other order: the provider
\* code first, then the HTTP status
ClassifyCodeFirst(se) ==
    CASE se.code = "NotAuthorizedOrNotFound" ->
            [code |-> OperationErrorCodeNotFound, ok |-> TRUE]
      [] se.code = "TooManyRequests" ->
            [code |-> OperationErrorCodeThrottling, ok |-> TRUE]
      [] se.status = 404 -> [code |-> OperationErrorCodeNotFound, ok |-> TRUE]
      [] se.status = 409 -> [code |-> OperationErrorCodeResourceConflict, ok |-> TRUE]
      [] se.status = 429 -> [code |-> OperationErrorCodeThrottling, ok |-> TRUE]
      [] se.status \in {500, 502, 503} ->
            [code |-> OperationErrorCodeServiceInternalError, ok |-> TRUE]
      [] se.status = 504 -> [code |-> OperationErrorCodeServiceTimeout, ok |-> TRUE]
      [] OTHER -> [code |-> OperationErrorCodeNotSet, ok |-> FALSE]

\* the two switches of HandleOCIServiceError on the service error found:
\* the HTTP status first, then the provider code
Classify(se) ==
    CASE se.status = 404 -> [code |-> OperationErrorCodeNotFound, ok |-> TRUE]
      [] se.status = 409 -> [code |-> OperationErrorCodeResourceConflict, ok |-> TRUE]
      [] se.status = 429 -> [code |-> OperationErrorCodeThrottling, ok |-> TRUE]
      [] se.status \in {500, 502, 503} ->
            [code |-> OperationErrorCodeServiceInternalError, ok |-> TRUE]
      [] se.status = 504 -> [code |-> OperationErrorCodeServiceTimeout, ok |-> TRUE]
      [] se.code = "NotAuthorizedOrNotFound" ->
            [code |-> OperationErrorCodeNotFound, ok |-> TRUE]
      [] se.code = "TooManyRequests" ->
            [code |-> OperationErrorCodeThrottling, ok |-> TRUE]
      [] OTHER -> [code |-> OperationErrorCodeNotSet, ok |-> FALSE]

\* faulty variant: looks at the outermost error only, never unwraps
HandleOCIServiceErrorNoUnwrap(err) ==
    IF err = NilErr \/ ~IsServiceError(err)
    THEN [code |-> OperationErrorCodeNotSet, ok |-> FALSE]
    ELSE Classify(Head(err))

\* HandleOCIServiceError: (code, matched)
HandleOCIServiceError(err) ==
    IF err = NilErr THEN [code |-> OperationErrorCodeNotSet, ok |-> FALSE]
    ELSE LET serviceErr == FindServiceError(err)
         IN  IF serviceErr = NilErr
             THEN [code |-> OperationErrorCodeNotSet, ok |-> FALSE]
             ELSE Classify(Head(serviceErr))

\* err.Error(): the texts of the layers, outermost first
ErrorText(err) == [i \in 1..Len(err) |-> err[i].text]

\* the status message of a handler: "<operationName> cannot be <verb>:
\* <service message>", or err.Error() when no service error is found
HandlerMessage(err, operationName, verb) ==
    LET serviceErr == FindServiceError(err)
    IN  IF serviceErr # NilErr
        THEN <<operationName, verb, Head(serviceErr).text>>
        ELSE ErrorText(err)

\* faulty variant: hands the error back beside the result it built
HandleDeleteErrorKeepsError(err, resourceType, nativeID, operationName) ==
    IF err = NilErr THEN [res |-> NilPtr, err |-> NilErr]
    ELSE LET c == HandleOCIServiceError(err)
         IN  IF c.ok
             THEN [res |-> Ptr(ProgressResult(OperationDelete, OperationStatusFailure,
                              c.code, HandlerMessage(err, operationName, " cannot be deleted: "),
                              nativeID, "", <<>>)),
                   err |-> err]
             ELSE [res |-> NilPtr, err |-> err]

HandleDeleteError(err, resourceType, nativeID, operationName) ==
    IF err = NilErr THEN [res |-> NilPtr, err |-> NilErr]
    ELSE LET c == HandleOCIServiceError(err)
         IN  IF c.ok
             THEN [res |-> Ptr(ProgressResult(OperationDelete, OperationStatusFailure,
                              c.code, HandlerMessage(err, operationName, " cannot be deleted: "),
                              nativeID, "", <<>>)),
                   err |-> NilErr]
             ELSE [res |-> NilPtr, err |-> err]

HandleCreateError(err, resourceType, operationName) ==
    IF err = NilErr THEN [res |-> NilPtr, err |-> NilErr]
    ELSE LET c == HandleOCIServiceError(err)
         IN  IF c.ok
             THEN [res |-> Ptr(ProgressResult(OperationCreate, OperationStatusFailure,
                              c.code, HandlerMessage(err, operationName, " cannot be created: "),
                              "", "", <<>>)),
                   err |-> NilErr]
             ELSE [res |-> NilPtr, err |-> err]

\* faulty variant: wraps the error it could not classify in a new one
HandleUpdateErrorRewraps(err, resourceType, nativeID, operationName) ==
    IF err = NilErr THEN [res |-> NilPtr, err |-> NilErr]
    ELSE LET c == HandleOCIServiceError(err)
         IN  IF c.ok
             THEN [res |-> Ptr(ProgressResult(OperationUpdate, OperationStatusFailure,
                              c.code, HandlerMessage(err, operationName, " cannot be updated: "),
                              nativeID, "", <<>>)),
                   err |-> NilErr]
             ELSE [res |-> NilPtr, err |-> Errorf("update failed", err)]

HandleUpdateError(err, resourceType, nativeID, operationName) ==
    IF err = NilErr THEN [res |-> NilPtr, err |-> NilErr]
    ELSE LET c == HandleOCIServiceError(err)
         IN  IF c.ok
             THEN [res |-> Ptr(ProgressResult(OperationUpdate, OperationStatusFailure,
                              c.code, HandlerMessage(err, operationName, " cannot be updated: "),
                              nativeID, "", <<>>)),
                   err |-> NilErr]
             ELSE [res |-> NilPtr, err |-> err]


(***************************************************************************)
(* The read-after-write decorator.  The inner operator is any Provisioner: *)
(* what it returns is an input.  A call's outcome is the pair (result,     *)
(* error) of Go, or a panic (a nil pointer dereference).                   *)
(***************************************************************************)
Ret(res, err) == [res |-> res, err |-> err, panic |-> FALSE]

Panic == [res |-> NilPtr, err |-> NilErr, panic |-> TRUE]

\* the errors an inner operator returns in the decorator's model
InnerErrors ==
    {<<PlainLayer("boom")>>,
     <<ServiceLayer(404, "NotAuthorizedOrNotFound", "denied")>>,
     Errorf("ctx", <<ServiceLayer(409, "InvalidParameter", "denied")>>)}

\* the ProgressResults an inner Create/Update/Delete/Status may return
WriteResults ==
    {ProgressResult(op, st, ec, msg, id, rq, props) :
        op \in {OperationCreate, OperationUpdate},
        st \in {OperationStatusSuccess, OperationStatusFailure, OperationStatusInProgress},
        ec \in {OperationErrorCodeNotSet, OperationErrorCodeNotFound},
        msg \in {<<>>, <<"note">>},
        id \in {"", "ocid1"},
        rq \in {"", "wr-1"},
        props \in {<<>>, <<1>>}}

\* (result, error) of an inner write: a result (or a nil one) with no error,
\* or an error with or without a result beside it
WriteOutcomes ==
    {Ret(Ptr(r), NilErr) : r \in WriteResults}
        \cup {Ret(NilPtr, NilErr)}
        \cup {Ret(NilPtr, e) : e \in InnerErrors}
        \cup {Ret(Ptr(r), e) : r \in {ProgressResult(OperationCreate, OperationStatusSuccess,
                                          OperationErrorCodeNotSet, <<>>, "ocid1", "", <<1>>)},
                               e \in InnerErrors}

\* resource.ReadResult
ReadResult(resourceType, props, errorCode) ==
    [ResourceType |-> resourceType, Properties |-> props, ErrorCode |-> errorCode]

ReadResults ==
    {ReadResult("T", props, ec) :
        props \in Bytes, ec \in {OperationErrorCodeNotSet, OperationErrorCodeNotFound}}

ReadOutcomes ==
    {Ret(Ptr(r), NilErr) : r \in ReadResults}
        \cup {Ret(NilPtr, NilErr)}
        \cup {Ret(NilPtr, e) : e \in InnerErrors}
        \cup {Ret(Ptr(ReadResult("T", <<1, 2>>, OperationErrorCodeNotSet)), e) : e \in InnerErrors}

\* resource.ListResult
ListOutcomes ==
    {Ret(Ptr([NativeIDs |-> ids]), NilErr) : ids \in {<<>>, <<"ocid1">>, <<"ocid1", "ocid2">>}}
        \cup {Ret(NilPtr, e) : e \in InnerErrors}

\* one call of the inner operator, as the decorator's call log records it
InnerCall(op, nativeID) == [op |-> op, NativeID |-> nativeID]

\* a decorated call: the inner outcomes it is given (inner: of the write or
\* of the passed-through operation; read: of the Read, if one is made), and
\* once it has run (done) the inner calls it made in order, what it
\* returned, and the state in which it left the result object that the
\* inner write handed to it
RawCall(op, inner, read, calls, ret, innerObj) ==
    [op |-> op, inner |-> inner, read |-> read, done |-> TRUE, calls |-> calls,
     ret |-> ret, innerObj |-> innerObj]

NoCall == [res |-> NilPtr, err |-> NilErr, panic |-> FALSE]

RawPending(op, inner, read) ==
    [op |-> op, inner |-> inner, read |-> read, done |-> FALSE, calls |-> <<>>,
     ret |-> NoCall, innerObj |-> NilPtr]

RawIdle == RawPending("none", NoCall, NoCall)

\* faulty variant: reads after every write that returned a result
NeedsReadAlways(pr) == TRUE

\* whether the decorator follows a write result with a Read
NeedsRead(pr) == pr.OperationStatus = OperationStatusSuccess /\ pr.NativeID # ""

\* faulty variant: takes the properties of a Read whatever its ErrorCode
ReadUsableIgnoringErrorCode(r) == r.err = NilErr

\* faulty variant: the test of the ErrorCode is the wrong way round
ReadUsableOnlyWithErrorCode(r) == r.err = NilErr /\ Deref(r.res).ErrorCode # ""

\* whether the decorator takes the properties of what Read returned

ReadUsable(r) == r.err = NilErr /\ Deref(r.res).ErrorCode = ""

\* readAfterWrite.Create / readAfterWrite.Update (the two bodies are the
\* same): w is what the inner write returns, r what the inner Read returns
\* if it is called
DecoratedWrite(op, w, r) ==
    IF w.err # NilErr
    THEN RawCall(op, w, NoCall, <<InnerCall(op, "")>>, Ret(NilPtr, w.err), w.res)
    ELSE IF w.res = NilPtr
    THEN RawCall(op, w, NoCall, <<InnerCall(op, "")>>, Panic, w.res)
    ELSE LET pr == Deref(w.res)
         IN  IF NeedsRead(pr)
             THEN LET calls == <<InnerCall(op, ""), InnerCall("Read", pr.NativeID)>>
                  IN  IF r.err = NilErr /\ r.res = NilPtr
                      THEN RawCall(op, w, r, calls, Panic, w.res)
                      ELSE IF ReadUsable(r)
                      THEN LET new == Ptr([pr EXCEPT !.ResourceProperties =
                                               RawMessage(Deref(r.res).Properties)])
                           IN  RawCall(op, w, r, calls, Ret(new, NilErr), new)
                      ELSE RawCall(op, w, r, calls, Ret(w.res, NilErr), w.res)
             ELSE RawCall(op, w, NoCall, <<InnerCall(op, "")>>, Ret(w.res, NilErr), w.res)

\* faulty variant: passes the result on and drops the error
PassThroughDropsError(op, o) ==
    RawCall(op, o, NoCall, <<InnerCall(op, "")>>, Ret(o.res, NilErr), o.res)

\* readAfterWrite.Delete / Status / Read / List: return w.inner.X(ctx, request)
PassThrough(op, o) ==
    RawCall(op, o, NoCall, <<InnerCall(op, "")>>, Ret(o.res, o.err), o.res)

RawCreate ==
    /\ ~raw.done /\ raw.op = OperationCreate
    /\ raw' = DecoratedWrite(OperationCreate, raw.inner, raw.read)
    /\ UNCHANGED <<eh, plg, wrs, poll, seen, opc, cloud, del, apd, reg, cli, tags, nsg, upd>>

RawUpdate ==
    /\ ~raw.done /\ raw.op = OperationUpdate
    /\ raw' = DecoratedWrite(OperationUpdate, raw.inner, raw.read)
    /\ UNCHANGED <<eh, plg, wrs, poll, seen, opc, cloud, del, apd, reg, cli, tags, nsg, upd>>

RawDelete ==
    /\ ~raw.done /\ raw.op = OperationDelete
    /\ raw' = PassThrough(OperationDelete, raw.inner)
    /\ UNCHANGED <<eh, plg, wrs, poll, seen, opc, cloud, del, apd, reg, cli, tags, nsg, upd>>

RawStatus ==
    /\ ~raw.done /\ raw.op = "Status"
    /\ raw' = PassThrough("Status", raw.inner)
    /\ UNCHANGED <<eh, plg, wrs, poll, seen, opc, cloud, del, apd, reg, cli, tags, nsg, upd>>

RawRead ==
    /\ ~raw.done /\ raw.op = "Read"
    /\ raw' = PassThrough("Read", raw.inner)
    /\ UNCHANGED <<eh, plg, wrs, poll, seen, opc, cloud, del, apd, reg, cli, tags, nsg, upd>>

RawList ==
    /\ ~raw.done /\ raw.op = "List"
    /\ raw' = PassThrough("List", raw.inner)
    /\ UNCHANGED <<eh, plg, wrs, poll, seen, opc, cloud, del, apd, reg, cli, tags, nsg, upd>>

\* the decorated calls, with what the inner operator will answer
RawInputs ==
    {RawPending(op, w, r) : op \in {OperationCreate, OperationUpdate},
                            w \in WriteOutcomes, r \in ReadOutcomes}
        \cup {RawPending(op, o, NoCall) : op \in {OperationDelete, "Status"},
                                          o \in WriteOutcomes}
        \cup {RawPending("Read", o, NoCall) : o \in ReadOutcomes}
        \cup {RawPending("List", o, NoCall) : o \in ListOutcomes}

EhIdle ==
    [fn |-> "none", err |-> NilErr, nativeID |-> "", done |-> FALSE,
     class |-> [code |-> OperationErrorCodeNotSet, ok |-> FALSE], ret |-> NoCall]

PlgIdle ==
    [op |-> "none", resourceType |-> "", nativeID |-> "", clientsErr |-> NilErr,
     inner |-> NoCall, read |-> NoCall, done |-> FALSE, called |-> FALSE,
     opRet |-> NoCall, ret |-> NoCall]

PollIdle ==
    [handle |-> "", operation |-> "", clientErr |-> NilErr,
     resp |-> [err |-> NilErr, Status |-> "", Resources |-> <<>>, CompartmentId |-> NilPtr],
     list |-> [err |-> NilErr, Items |-> <<>>], done |-> FALSE, ret |-> NoCall]

InitDecorator ==
    /\ raw \in RawInputs
    /\ eh = EhIdle
    /\ plg = PlgIdle
    /\ wrs = <<>>
    /\ poll = PollIdle
    /\ seen = <<>>
    /\ opc = <<>>
    /\ cloud = <<>>
    /\ del = <<>>
    /\ apd = <<>>
    /\ reg = <<>>
    /\ cli = <<>>
    /\ tags = <<>>
    /\ nsg = <<>>
    /\ upd = <<>>

NextDecorator ==
    \/ RawCreate
    \/ RawUpdate
    \/ RawDelete
    \/ RawStatus
    \/ RawRead
    \/ RawList

SpecDecorator == InitDecorator /\ [][NextDecorator]_vars


(***************************************************************************)
(* Properties of the read-after-write decorator.                           *)
(***************************************************************************)
RawIsWrite == raw.done /\ raw.op \in {OperationCreate, OperationUpdate}

\* the inner write returned no error, Success and a non-empty NativeID
RawSyncSuccess ==
    /\ RawIsWrite
    /\ raw.inner.err = NilErr
    /\ raw.inner.res # NilPtr
    /\ Deref(raw.inner.res).OperationStatus = OperationStatusSuccess
    /\ Deref(raw.inner.res).NativeID # ""

\* the Read calls the decorator made of the inner operator, in order
RawReadCalls == SelectSeq(raw.calls, LAMBDA c : c.op = "Read")

\* the inner Read returned no error and a result with an empty ErrorCode
RawReadFound ==
    /\ raw.read.err = NilErr
    /\ raw.read.res # NilPtr
    /\ Deref(raw.read.res).ErrorCode = ""

SameBytes(a, b) == Len(a) = Len(b) /\ \A i \in 1..Len(a) : a[i] = b[i]

\* C1: after a synchronous write success (no error, Success, non-empty
\* NativeID) followed by a Read that returns no error and an empty
\* ErrorCode, Create and Update return a result whose ResourceProperties
\* are the Read's Properties byte for byte, not those of the write.
C1_ReadPropertiesReplaceWriteProperties ==
    (RawSyncSuccess /\ RawReadFound) =>
        /\ ~raw.ret.panic
        /\ raw.ret.err = NilErr
        /\ raw.ret.res # NilPtr
        /\ SameBytes(Deref(raw.ret.res).ResourceProperties,
                     Deref(raw.read.res).Properties)

C1_Witness ==
    /\ RawSyncSuccess
    /\ RawReadFound
    /\ raw.op = OperationCreate
    /\ Deref(raw.inner.res).ResourceProperties = <<1>>
    /\ Deref(raw.read.res).Properties = <<1, 2>>
    /\ Deref(raw.ret.res).ResourceProperties = <<1, 2>>

\* C2: Create and Update call inner.Read exactly once, with the NativeID of
\* the write result, when the inner write returned no error, Success and a
\* non-empty NativeID; in every other case (an error, InProgress, Failure,
\* an empty NativeID) they never call Read.
C2_ReadOnlyAfterSyncSuccess ==
    RawIsWrite =>
        IF RawSyncSuccess
        THEN RawReadCalls = <<InnerCall("Read", Deref(raw.inner.res).NativeID)>>
        ELSE RawReadCalls = <<>>

C2_Witness ==
    /\ RawIsWrite
    /\ raw.op = OperationUpdate
    /\ raw.inner.err = NilErr
    /\ raw.inner.res # NilPtr
    /\ Deref(raw.inner.res).OperationStatus = OperationStatusInProgress
    /\ Deref(raw.inner.res).NativeID = "ocid1"
    /\ raw.calls = <<InnerCall(OperationUpdate, "")>>

\* C3: after a synchronous write success, a Read that returns an error, or
\* a result with a non-empty ErrorCode, leaves the call returning a nil
\* error and the write's result with its ResourceProperties unchanged; and
\* the returned error is non-nil only when the inner write returned an
\* error.
C3_ReadFailureFallsBack ==
    RawIsWrite =>
        /\ (/\ RawSyncSuccess
            /\ RawReadCalls # <<>>
            /\ \/ raw.read.err # NilErr
               \/ raw.read.res # NilPtr /\ Deref(raw.read.res).ErrorCode # "")
           => raw.ret = Ret(raw.inner.res, NilErr)
        /\ raw.ret.err # NilErr => raw.inner.err # NilErr

C3_Witness ==
    /\ RawSyncSuccess
    /\ RawReadCalls # <<>>
    /\ raw.read.err = NilErr
    /\ raw.read.res # NilPtr
    /\ Deref(raw.read.res).ErrorCode = OperationErrorCodeNotFound
    /\ Deref(raw.read.res).Properties = <<1, 2>>
    /\ Deref(raw.inner.res).ResourceProperties = <<1>>
    /\ raw.ret = Ret(raw.inner.res, NilErr)

\* C4: Delete, Status, Read and List return exactly the inner operator's
\* result and error after exactly one inner call (no extra Read); an error
\* of the inner Create/Update is returned unchanged; and a result returned
\* by Create/Update has the Operation, OperationStatus, NativeID, RequestID,
\* ErrorCode and StatusMessage that the inner write produced.
C4_DecoratorFrame ==
    raw.done =>
        /\ raw.op \in {OperationDelete, "Status", "Read", "List"} =>
              /\ raw.ret = Ret(raw.inner.res, raw.inner.err)
              /\ raw.calls = <<InnerCall(raw.op, "")>>
        /\ (RawIsWrite /\ raw.inner.err # NilErr) =>
              (~raw.ret.panic /\ raw.ret.err = raw.inner.err)
        /\ (RawIsWrite /\ raw.ret.res # NilPtr) =>
              /\ raw.inner.res # NilPtr
              /\ \A f \in {"Operation", "OperationStatus", "NativeID", "RequestID",
                           "ErrorCode", "StatusMessage"} :
                    Deref(raw.ret.res)[f] = Deref(raw.inner.res)[f]

C4_Witness ==
    /\ raw.done
    /\ raw.op = OperationDelete
    /\ raw.inner.res # NilPtr
    /\ raw.inner.err # NilErr
    /\ raw.ret = Ret(raw.inner.res, raw.inner.err)


(***************************************************************************)
(* Calls of the error classifier and of the three result builders.         *)
(***************************************************************************)
NoClass == [code |-> OperationErrorCodeNotSet, ok |-> FALSE]

EhPending(fn, err, nativeID) ==
    [fn |-> fn, err |-> err, nativeID |-> nativeID, done |-> FALSE,
     class |-> NoClass, ret |-> NoCall]

EhInputs ==
    {EhPending(fn, e, id) :
        fn \in {"HandleOCIServiceError", "HandleCreateError", "HandleUpdateError",
                "HandleDeleteError"},
        e \in Errors \cup {NilErr},
        id \in {"", "ocid1"}}

\* what a builder returns, as (result, error)
HandlerRet(h) == Ret(h.res, h.err)

CallHandleOCIServiceError ==
    /\ ~eh.done /\ eh.fn = "HandleOCIServiceError"
    /\ eh' = [eh EXCEPT !.done = TRUE, !.class = HandleOCIServiceError(eh.err)]
    /\ UNCHANGED <<raw, plg, wrs, poll, seen, opc, cloud, del, apd, reg, cli, tags, nsg, upd>>

CallHandleCreateError ==
    /\ ~eh.done /\ eh.fn = "HandleCreateError"
    /\ eh' = [eh EXCEPT !.done = TRUE,
                        !.ret = HandlerRet(HandleCreateError(eh.err, "T", "T"))]
    /\ UNCHANGED <<raw, plg, wrs, poll, seen, opc, cloud, del, apd, reg, cli, tags, nsg, upd>>

CallHandleUpdateError ==
    /\ ~eh.done /\ eh.fn = "HandleUpdateError"
    /\ eh' = [eh EXCEPT !.done = TRUE,
                        !.ret = HandlerRet(HandleUpdateError(eh.err, "T", eh.nativeID, "T"))]
    /\ UNCHANGED <<raw, plg, wrs, poll, seen, opc, cloud, del, apd, reg, cli, tags, nsg, upd>>

CallHandleDeleteError ==
    /\ ~eh.done /\ eh.fn = "HandleDeleteError"
    /\ eh' = [eh EXCEPT !.done = TRUE,
                        !.ret = HandlerRet(HandleDeleteError(eh.err, "T", eh.nativeID, "T"))]
    /\ UNCHANGED <<raw, plg, wrs, poll, seen, opc, cloud, del, apd, reg, cli, tags, nsg, upd>>

InitErrors ==
    /\ raw = RawIdle
    /\ eh \in EhInputs
    /\ plg = PlgIdle
    /\ wrs = <<>>
    /\ poll = PollIdle
    /\ seen = <<>>
    /\ opc = <<>>
    /\ cloud = <<>>
    /\ del = <<>>
    /\ apd = <<>>
    /\ reg = <<>>
    /\ cli = <<>>
    /\ tags = <<>>
    /\ nsg = <<>>
    /\ upd = <<>>

NextErrors ==
    \/ CallHandleOCIServiceError
    \/ CallHandleCreateError
    \/ CallHandleUpdateError
    \/ CallHandleDeleteError

SpecErrors == InitErrors /\ [][NextErrors]_vars

(***************************************************************************)
(* Properties of the classifier and of the result builders.                *)
(***************************************************************************)
EhIsHandler ==
    eh.done /\ eh.fn \in {"HandleCreateError", "HandleUpdateError", "HandleDeleteError"}

\* the layers of an error that are provider service errors
ServiceLayersOf(err) == {i \in 1..Len(err) : err[i].kind = "svc"}

\* the classification the specification gives for an HTTP status
ExpectedCodeOfStatus(status) ==
    CASE status = 404 -> OperationErrorCodeNotFound
      [] status = 409 -> OperationErrorCodeResourceConflict
      [] status = 429 -> OperationErrorCodeThrottling
      [] status \in {500, 502, 503} -> OperationErrorCodeServiceInternalError
      [] status = 504 -> OperationErrorCodeServiceTimeout
      [] OTHER -> "unspecified"

\* C5: an error whose cause chain holds, at any depth, a provider service
\* error with HTTP status 404, 409, 429, 500, 502, 503 or 504 is classified
\* (matched = true) as NotFound, ResourceConflict, Throttling,
\* ServiceInternalError (500, 502, 503) and ServiceTimeout respectively.
C5_StatusClassifiedAtAnyDepth ==
    (eh.done /\ eh.fn = "HandleOCIServiceError") =>
        \A i \in ServiceLayersOf(eh.err) :
            eh.err[i].status \in {404, 409, 429, 500, 502, 503, 504} =>
                eh.class = [code |-> ExpectedCodeOfStatus(eh.err[i].status), ok |-> TRUE]

C5_Witness ==
    /\ eh.done
    /\ eh.fn = "HandleOCIServiceError"
    /\ Len(eh.err) = 3
    /\ eh.err[3].kind = "svc"
    /\ eh.err[3].status = 503
    /\ eh.class = [code |-> OperationErrorCodeServiceInternalError, ok |-> TRUE]

\* C6: for the nil error and for every error with no provider service error
\* in its cause chain the classifier returns (NotSet, false), and the three
\* builders return (nil, the original error) for such a non-nil error.
C6_UnclassifiableIsNotSet ==
    (eh.done /\ ServiceLayersOf(eh.err) = {}) =>
        /\ eh.fn = "HandleOCIServiceError" => eh.class = NoClass
        /\ (EhIsHandler /\ eh.err # NilErr) => eh.ret = Ret(NilPtr, eh.err)

C6_Witness ==
    /\ eh.done
    /\ eh.fn = "HandleUpdateError"
    /\ Len(eh.err) = 2
    /\ ServiceLayersOf(eh.err) = {}
    /\ eh.ret = Ret(NilPtr, eh.err)

\* C7 as claimed: for every input error, nil included, each builder returns
\* exactly one non-nil value.
C7_ExactlyOneNonNil_Original ==
    EhIsHandler => ((eh.ret.res # NilPtr) # (eh.ret.err # NilErr))

\* C7, amended: for every non-nil input error each builder returns exactly
\* one non-nil value (never a result together with an error, never neither);
\* for the nil error each returns (nil, nil).
C7_ExactlyOneNonNilForNonNilInput ==
    EhIsHandler =>
        /\ ~(eh.ret.res # NilPtr /\ eh.ret.err # NilErr)
        /\ eh.err # NilErr => (eh.ret.res # NilPtr \/ eh.ret.err # NilErr)
        /\ eh.err = NilErr => eh.ret = Ret(NilPtr, NilErr)

C7_Witness ==
    /\ eh.done
    /\ eh.fn = "HandleDeleteError"
    /\ eh.err # NilErr
    /\ HandleOCIServiceError(eh.err).ok
    /\ eh.ret.res # NilPtr
    /\ eh.ret.err = NilErr


(***************************************************************************)
(* The plugin entry points of oci.go.  Each builds the clients, looks the  *)
(* operator up in the registry (which wraps it in the decorator), calls it *)
(* and, for Create, Update and Delete, hands an error to the builders.     *)
(***************************************************************************)
\* the resource types that init() functions register
RegisteredTypes ==
    {"OCI::ContainerEngine::Cluster", "OCI::ContainerEngine::NodePool",
     "OCI::ContainerEngine::VirtualNodePool", "OCI::Core::DhcpOptions",
     "OCI::Core::Instance", "OCI::Core::InternetGateway", "OCI::Core::NatGateway",
     "OCI::Core::NetworkSecurityGroupSecurityRule", "OCI::Core::RouteTable",
     "OCI::Core::SecurityList", "OCI::Core::ServiceGateway", "OCI::Core::Subnet",
     "OCI::Core::VCN", "OCI::Core::Volume", "OCI::Identity::Compartment",
     "OCI::Identity::Policy", "OCI::ObjectStorage::Bucket"}

\* provisioner.Get: nil for a type never registered, else the factory's
\* operator inside the decorator
Get(resourceType) == IF resourceType \in RegisteredTypes THEN "readAfterWrite" ELSE "nil"

\* fmt.Errorf("no provisioner registered for resource type: %s", ...)
NoProvisionerErr == <<PlainLayer("no provisioner registered for resource type")>>

\* a plugin call: its inputs (the request's resource type and native id,
\* what NewClients returns, what the inner operator answers), and once it
\* has run whether the operator was called, what the decorated operator
\* returned (opRet) and what the plugin returned (ret)
PlgCall(in, called, opRet, ret) ==
    [op |-> in.op, resourceType |-> in.resourceType, nativeID |-> in.nativeID,
     clientsErr |-> in.clientsErr, inner |-> in.inner, read |-> in.read,
     done |-> TRUE, called |-> called, opRet |-> opRet, ret |-> ret]

PlgPending(op, resourceType, nativeID, clientsErr, inner, read) ==
    [op |-> op, resourceType |-> resourceType, nativeID |-> nativeID,
     clientsErr |-> clientsErr, inner |-> inner, read |-> read,
     done |-> FALSE, called |-> FALSE, opRet |-> NoCall, ret |-> NoCall]

\* the steps every entry point takes before it calls the operator; "go"
\* when the operator is to be called
PluginPrologue(in, onNoProvisioner) ==
    IF in.clientsErr # NilErr
    THEN PlgCall(in, FALSE, NoCall, Ret(NilPtr, in.clientsErr))
    ELSE IF Get(in.resourceType) = "nil"
    THEN PlgCall(in, FALSE, NoCall, onNoProvisioner)
    ELSE PlgCall(in, TRUE, NoCall, NoCall)

\* the tail of Plugin.Create / Update / Delete: o is what the operator
\* returned, h what the builder makes of its error
PluginConvert(in, o, h) ==
    IF o.panic THEN PlgCall(in, TRUE, o, Panic)
    ELSE IF o.err # NilErr
    THEN IF h.err = NilErr /\ h.res # NilPtr
         THEN PlgCall(in, TRUE, o, Ret(h.res, NilErr))
         ELSE PlgCall(in, TRUE, o, Ret(NilPtr, o.err))
    ELSE PlgCall(in, TRUE, o, Ret(o.res, NilErr))

PluginCreate(in) ==
    LET pre == PluginPrologue(in, Ret(NilPtr, NoProvisionerErr))
        o == DecoratedWrite(OperationCreate, in.inner, in.read).ret
    IN  IF ~pre.called THEN pre
        ELSE PluginConvert(in, o, HandleCreateError(o.err, in.resourceType, in.resourceType))

PluginUpdate(in) ==
    LET pre == PluginPrologue(in, Ret(NilPtr, NoProvisionerErr))
        o == DecoratedWrite(OperationUpdate, in.inner, in.read).ret
    IN  IF ~pre.called THEN pre
        ELSE PluginConvert(in, o, HandleUpdateError(o.err, in.resourceType, in.nativeID,
                                                    in.resourceType))

PluginDelete(in) ==
    LET pre == PluginPrologue(in, Ret(NilPtr, NoProvisionerErr))
        o == PassThrough(OperationDelete, in.inner).ret
    IN  IF ~pre.called THEN pre
        ELSE PluginConvert(in, o, HandleDeleteError(o.err, in.resourceType, in.nativeID,
                                                    in.resourceType))

\* faulty variant: Status and Read hand an operator error to a builder, as
\* the write entry points do
PluginPassConverting(in) ==
    LET pre == PluginPrologue(in, Ret(NilPtr, NoProvisionerErr))
        o == PassThrough(in.op, in.inner).ret
    IN  IF ~pre.called THEN pre
        ELSE PluginConvert(in, o, HandleUpdateError(o.err, in.resourceType, in.nativeID,
                                                    in.resourceType))

\* Plugin.Status / Plugin.Read: return prov.X(ctx, request)
PluginPass(in) ==
    LET pre == PluginPrologue(in, Ret(NilPtr, NoProvisionerErr))
        o == PassThrough(in.op, in.inner).ret
    IN  IF ~pre.called THEN pre ELSE PlgCall(in, TRUE, o, o)

\* Plugin.List: an unregistered type lists nothing, without an error
PluginList(in) ==
    LET pre == PluginPrologue(in, Ret(Ptr([NativeIDs |-> <<>>]), NilErr))
        o == PassThrough("List", in.inner).ret
    IN  IF ~pre.called THEN pre ELSE PlgCall(in, TRUE, o, o)

PlgCreate ==
    /\ ~plg.done /\ plg.op = OperationCreate
    /\ plg' = PluginCreate(plg)
    /\ UNCHANGED <<raw, eh, wrs, poll, seen, opc, cloud, del, apd, reg, cli, tags, nsg, upd>>

PlgUpdate ==
    /\ ~plg.done /\ plg.op = OperationUpdate
    /\ plg' = PluginUpdate(plg)
    /\ UNCHANGED <<raw, eh, wrs, poll, seen, opc, cloud, del, apd, reg, cli, tags, nsg, upd>>

PlgDelete ==
    /\ ~plg.done /\ plg.op = OperationDelete
    /\ plg' = PluginDelete(plg)
    /\ UNCHANGED <<raw, eh, wrs, poll, seen, opc, cloud, del, apd, reg, cli, tags, nsg, upd>>

PlgStatus ==
    /\ ~plg.done /\ plg.op = "Status"
    /\ plg' = PluginPass(plg)
    /\ UNCHANGED <<raw, eh, wrs, poll, seen, opc, cloud, del, apd, reg, cli, tags, nsg, upd>>

PlgRead ==
    /\ ~plg.done /\ plg.op = "Read"
    /\ plg' = PluginPass(plg)
    /\ UNCHANGED <<raw, eh, wrs, poll, seen, opc, cloud, del, apd, reg, cli, tags, nsg, upd>>

PlgList ==
    /\ ~plg.done /\ plg.op = "List"
    /\ plg' = PluginList(plg)
    /\ UNCHANGED <<raw, eh, wrs, poll, seen, opc, cloud, del, apd, reg, cli, tags, nsg, upd>>

\* what the operators behind the plugin answer: a few results, and every
\* error of the classifier's model
PlgWriteOutcomes ==
    {Ret(Ptr(ProgressResult(op, st, OperationErrorCodeNotSet, <<>>, "ocid1", rq, <<1>>)), NilErr) :
        op \in {OperationCreate},
        st \in {OperationStatusSuccess, OperationStatusInProgress},
        rq \in {"wr-1"}}
        \cup {Ret(NilPtr, e) : e \in Errors}

PlgReadOutcomes ==
    {Ret(Ptr(ReadResult("T", <<1, 2>>, ec)), NilErr) :
        ec \in {OperationErrorCodeNotSet, OperationErrorCodeNotFound}}
        \cup {Ret(NilPtr, e) : e \in Errors}

PlgListOutcomes ==
    {Ret(Ptr([NativeIDs |-> <<"ocid1">>]), NilErr)} \cup {Ret(NilPtr, e) : e \in Errors}

\* the requests the plugin is called with: a registered type or an unknown
\* one, and what NewClients returns for the target's configuration
PlgRequests ==
    {[resourceType |-> t, nativeID |-> "ocid1", clientsErr |-> ce] :
        t \in {"OCI::ContainerEngine::Cluster", "Unknown::Type"},
        ce \in {NilErr, <<PlainLayer("can not read config file")>>}}

PlgInputs ==
    {PlgPending(op, q.resourceType, q.nativeID, q.clientsErr, w, r) :
        op \in {OperationCreate, OperationUpdate}, q \in PlgRequests,
        w \in PlgWriteOutcomes,
        r \in {Ret(Ptr(ReadResult("T", <<1, 2>>, OperationErrorCodeNotSet)), NilErr),
               Ret(NilPtr, <<PlainLayer("boom")>>)}}
        \cup {PlgPending(op, q.resourceType, q.nativeID, q.clientsErr, w, NoCall) :
                op \in {OperationDelete, "Status"}, q \in PlgRequests,
                w \in PlgWriteOutcomes}
        \cup {PlgPending("Read", q.resourceType, q.nativeID, q.clientsErr, o, NoCall) :
                q \in PlgRequests, o \in PlgReadOutcomes}
        \cup {PlgPending("List", q.resourceType, q.nativeID, q.clientsErr, o, NoCall) :
                q \in PlgRequests, o \in PlgListOutcomes}

InitPlugin ==
    /\ raw = RawIdle
    /\ eh = EhIdle
    /\ plg \in PlgInputs
    /\ wrs = <<>>
    /\ poll = PollIdle
    /\ seen = <<>>
    /\ opc = <<>>
    /\ cloud = <<>>
    /\ del = <<>>
    /\ apd = <<>>
    /\ reg = <<>>
    /\ cli = <<>>
    /\ tags = <<>>
    /\ nsg = <<>>
    /\ upd = <<>>

NextPlugin ==
    \/ PlgCreate
    \/ PlgUpdate
    \/ PlgDelete
    \/ PlgStatus
    \/ PlgRead
    \/ PlgList

SpecPlugin == InitPlugin /\ [][NextPlugin]_vars

(***************************************************************************)
(* Properties of the plugin entry points.                                  *)
(***************************************************************************)
\* the operator was called and returned an error
PlgOperatorFailed == plg.done /\ plg.called /\ ~plg.opRet.panic /\ plg.opRet.err # NilErr

\* C8: Create, Update and Delete turn an operator error that the classifier
\* matches into (result, nil) with OperationStatus Failure, the Operation of
\* the call and the classification as ErrorCode (never NotSet), and return
\* (nil, the operator's error) when the classifier does not match; Status,
\* Read and List return every operator error as an error.
C8_PluginErrorPropagation ==
    PlgOperatorFailed =>
        LET c == HandleOCIServiceError(plg.opRet.err)
        IN  IF plg.op \in {OperationCreate, OperationUpdate, OperationDelete}
            THEN IF c.ok
                 THEN /\ plg.ret.err = NilErr
                      /\ ~plg.ret.panic
                      /\ plg.ret.res # NilPtr
                      /\ Deref(plg.ret.res).OperationStatus = OperationStatusFailure
                      /\ Deref(plg.ret.res).Operation = plg.op
                      /\ Deref(plg.ret.res).ErrorCode = c.code
                      /\ c.code # OperationErrorCodeNotSet
                 ELSE plg.ret = Ret(NilPtr, plg.opRet.err)
            ELSE plg.ret.err = plg.opRet.err /\ plg.ret.err # NilErr

C8_Witness ==
    /\ PlgOperatorFailed
    /\ plg.op = OperationDelete
    /\ Len(plg.opRet.err) = 2
    /\ plg.opRet.err[2].status = 409
    /\ plg.ret.err = NilErr
    /\ Deref(plg.ret.res).ErrorCode = OperationErrorCodeResourceConflict
    /\ Deref(plg.ret.res).OperationStatus = OperationStatusFailure


(***************************************************************************)
(* The work-request poller of the container engine operators.              *)
(***************************************************************************)
WorkRequestStatusAccepted == "ACCEPTED"

WorkRequestStatusInProgress == "IN_PROGRESS"

WorkRequestStatusFailed == "FAILED"

WorkRequestStatusSucceeded == "SUCCEEDED"

WorkRequestStatusCanceling == "CANCELING"

WorkRequestStatusCanceled == "CANCELED"

WorkRequestStatuses ==
    {WorkRequestStatusAccepted, WorkRequestStatusInProgress, WorkRequestStatusFailed,
     WorkRequestStatusSucceeded, WorkRequestStatusCanceling, WorkRequestStatusCanceled}

NonTerminalStatuses ==
    {WorkRequestStatusAccepted, WorkRequestStatusInProgress, WorkRequestStatusCanceling}

ActionTypeCreated == "CREATED"

ActionTypeUpdated == "UPDATED"

ActionTypeRelated == "RELATED"

\* containerengine.WorkRequestResource: Identifier is a *string
WorkRequestResource(actionType, identifier) ==
    [ActionType |-> actionType, Identifier |-> identifier]

RECURSIVE Join(_, _)
\* strings.Join, as the sequence of the pieces of the text
Join(messages, sep) ==
    IF messages = <<>> THEN <<>>
    ELSE IF Len(messages) = 1 THEN messages
    ELSE <<Head(messages), sep>> \o Join(Tail(messages), sep)

RECURSIVE extractResourceIdAnyAction(_, _)
\* faulty variant: the action type of the resource is not looked at
extractResourceIdAnyAction(resources, actionType) ==
    IF resources = <<>> THEN ""
    ELSE IF Head(resources).Identifier # NilPtr
    THEN Deref(Head(resources).Identifier)
    ELSE extractResourceIdAnyAction(Tail(resources), actionType)

RECURSIVE extractResourceId(_, _)
\* the identifier of the first resource with the action type and an
\* identifier, "" when there is none
extractResourceId(resources, actionType) ==
    IF resources = <<>> THEN ""
    ELSE IF Head(resources).ActionType = actionType /\ Head(resources).Identifier # NilPtr
    THEN Deref(Head(resources).Identifier)
    ELSE extractResourceId(Tail(resources), actionType)

\* what client.ListWorkRequestErrors answers: an error, or the entries, each
\* with a Message (*string)
ListErrorsRet(err, items) == [err |-> err, Items |-> items]

\* faulty variant: only the first message is kept
getWorkRequestErrorsFirstOnly(list, compartmentId) ==
    IF compartmentId = NilPtr
    THEN <<"Work request failed (no compartment ID to retrieve errors)">>
    ELSE IF list.err # NilErr
    THEN <<"Work request failed (could not retrieve error details: ">>
            \o ErrorText(list.err) \o <<")">>
    ELSE IF Len(list.Items) = 0
    THEN <<"Work request failed (no error details available)">>
    ELSE LET present == SelectSeq(list.Items, LAMBDA m : m # NilPtr)
         IN  IF Len(present) = 0
             THEN <<"Work request failed (no error messages)">>
             ELSE <<Deref(present[1])>>

\* getWorkRequestErrors: list is the answer of ListWorkRequestErrors, which
\* is called only when the compartment id is there
getWorkRequestErrors(list, compartmentId) ==
    IF compartmentId = NilPtr
    THEN <<"Work request failed (no compartment ID to retrieve errors)">>
    ELSE IF list.err # NilErr
    THEN <<"Work request failed (could not retrieve error details: ">>
            \o ErrorText(list.err) \o <<")">>
    ELSE IF Len(list.Items) = 0
    THEN <<"Work request failed (no error details available)">>
    ELSE LET present == SelectSeq(list.Items, LAMBDA m : m # NilPtr)
             messages == [i \in 1..Len(present) |-> Deref(present[i])]
         IN  IF Len(messages) = 0
             THEN <<"Work request failed (no error messages)">>
             ELSE Join(messages, "; ")

\* what client.GetWorkRequest answers: an error, or the work request
GetWorkRequestRet(err, status, resources, compartmentId) ==
    [err |-> err, Status |-> status, Resources |-> resources,
     CompartmentId |-> compartmentId]

\* faulty variant: the work request id is put in NativeID
CreateInProgressResultAsNativeID(operation, workRequestId) ==
    ProgressResult(operation, OperationStatusInProgress, OperationErrorCodeNotSet, <<>>,
                   workRequestId, "", <<>>)

\* CreateInProgressResult: an InProgress result with the work request id
\* as RequestID
CreateInProgressResult(operation, workRequestId) ==
    ProgressResult(operation, OperationStatusInProgress, OperationErrorCodeNotSet, <<>>,
                   "", workRequestId, <<>>)

\* the nativeID of a SUCCEEDED work request: CREATED, then UPDATED, then
\* RELATED
SucceededNativeID(resources) ==
    LET created == extractResourceId(resources, ActionTypeCreated)
        updated == extractResourceId(resources, ActionTypeUpdated)
    IN  IF created # "" THEN created
        ELSE IF updated # "" THEN updated
        ELSE extractResourceId(resources, ActionTypeRelated)

\* faulty variant: a FAILED work request whose error entries can not be
\* fetched is reported as still in progress
CheckWorkRequestStatusRetriesOnFetchError(resp, list, workRequestId, operation) ==
    IF resp.err # NilErr
    THEN Ret(NilPtr, Errorf("failed to get work request", resp.err))
    ELSE CASE resp.Status = WorkRequestStatusSucceeded ->
                Ret(Ptr(ProgressResult(operation, OperationStatusSuccess,
                        OperationErrorCodeNotSet, <<>>,
                        SucceededNativeID(resp.Resources), "", <<>>)), NilErr)
           [] resp.Status = WorkRequestStatusFailed /\ list.err = NilErr ->
                Ret(Ptr(ProgressResult(operation, OperationStatusFailure,
                        OperationErrorCodeNotSet,
                        getWorkRequestErrors(list, resp.CompartmentId), "", "", <<>>)), NilErr)
           [] resp.Status = WorkRequestStatusCanceled ->
                Ret(Ptr(ProgressResult(operation, OperationStatusFailure,
                        OperationErrorCodeNotSet, <<"Operation was canceled">>,
                        "", "", <<>>)), NilErr)
           [] OTHER ->
                Ret(Ptr(ProgressResult(operation, OperationStatusInProgress,
                        OperationErrorCodeNotSet, <<>>, "", workRequestId, <<>>)), NilErr)

\* faulty variant: CANCELING is taken for CANCELED
CheckWorkRequestStatusCancelingFails(resp, list, workRequestId, operation) ==
    IF resp.err # NilErr
    THEN Ret(NilPtr, Errorf("failed to get work request", resp.err))
    ELSE CASE resp.Status = WorkRequestStatusSucceeded ->
                Ret(Ptr(ProgressResult(operation, OperationStatusSuccess,
                        OperationErrorCodeNotSet, <<>>,
                        SucceededNativeID(resp.Resources), "", <<>>)), NilErr)
           [] resp.Status = WorkRequestStatusFailed ->
                Ret(Ptr(ProgressResult(operation, OperationStatusFailure,
                        OperationErrorCodeNotSet,
                        getWorkRequestErrors(list, resp.CompartmentId), "", "", <<>>)), NilErr)
           [] resp.Status \in {WorkRequestStatusCanceled, WorkRequestStatusCanceling} ->
                Ret(Ptr(ProgressResult(operation, OperationStatusFailure,
                        OperationErrorCodeNotSet, <<"Operation was canceled">>,
                        "", "", <<>>)), NilErr)
           [] OTHER ->
                Ret(Ptr(ProgressResult(operation, OperationStatusInProgress,
                        OperationErrorCodeNotSet, <<>>, "", workRequestId, <<>>)), NilErr)

\* CheckWorkRequestStatus: resp is the answer of GetWorkRequest, list that of
\* ListWorkRequestErrors if it is asked
CheckWorkRequestStatus(resp, list, workRequestId, operation) ==
    IF resp.err # NilErr
    THEN Ret(NilPtr, Errorf("failed to get work request", resp.err))
    ELSE CASE resp.Status = WorkRequestStatusSucceeded ->
                Ret(Ptr(ProgressResult(operation, OperationStatusSuccess,
                        OperationErrorCodeNotSet, <<>>,
                        SucceededNativeID(resp.Resources), "", <<>>)), NilErr)
           [] resp.Status = WorkRequestStatusFailed ->
                Ret(Ptr(ProgressResult(operation, OperationStatusFailure,
                        OperationErrorCodeNotSet,
                        getWorkRequestErrors(list, resp.CompartmentId), "", "", <<>>)), NilErr)
           [] resp.Status = WorkRequestStatusCanceled ->
                Ret(Ptr(ProgressResult(operation, OperationStatusFailure,
                        OperationErrorCodeNotSet, <<"Operation was canceled">>,
                        "", "", <<>>)), NilErr)
           [] OTHER ->
                Ret(Ptr(ProgressResult(operation, OperationStatusInProgress,
                        OperationErrorCodeNotSet, <<>>, "", workRequestId, <<>>)), NilErr)


\* ClusterProvisioner.Status: clientErr is what GetContainerEngineClient
\* returns
ClusterStatus(clientErr, resp, list, requestID) ==
    IF clientErr # NilErr
    THEN Ret(NilPtr, Errorf("failed to get ContainerEngine client", clientErr))
    ELSE LET r == CheckWorkRequestStatus(resp, list, requestID, OperationCheckStatus)
         IN  IF r.err # NilErr THEN Ret(NilPtr, r.err) ELSE Ret(r.res, NilErr)

\* what client.CreateCluster answers: an error, or the id of the work
\* request it started (OpcWorkRequestId, a *string)
CreateClusterRet(err, opcWorkRequestId) == [err |-> err, OpcWorkRequestId |-> opcWorkRequestId]

\* ClusterProvisioner.Create: propsOK tells whether request.Properties parse
ClusterCreate(clientErr, propsOK, resp) ==
    IF clientErr # NilErr
    THEN Ret(NilPtr, Errorf("failed to get ContainerEngine client", clientErr))
    ELSE IF ~propsOK
    THEN Ret(NilPtr, Errorf("failed to parse properties", <<PlainLayer("invalid character")>>))
    ELSE IF resp.err # NilErr
    THEN Ret(NilPtr, Errorf("failed to create Cluster", resp.err))
    ELSE IF resp.OpcWorkRequestId = NilPtr
    THEN Panic
    ELSE Ret(Ptr(CreateInProgressResult(OperationCreate, Deref(resp.OpcWorkRequestId))), NilErr)

(***************************************************************************)
(* The provider's side of a work request.                                  *)
(***************************************************************************)
Handles == {"wr-1", "wr-2"}

\* all sequences over S of at most n elements
SeqsUpTo(S, n) == UNION {[1..k -> S] : k \in 0..n}

ResourceLists ==
    SeqsUpTo({WorkRequestResource(t, id) :
                 t \in {ActionTypeCreated, ActionTypeUpdated, ActionTypeRelated},
                 id \in {NilPtr, Ptr("r-42"), Ptr("r-7")}},
             MaxResources)

\* the Message fields (*string) of a work request's error entries
ErrorLists == SeqsUpTo({NilPtr, Ptr("quota"), Ptr("limit")}, MaxErrItems)

\* a work request as the provider holds it; Absent: no such work request
WorkRequest(status, resources, compartmentId, errors) ==
    [status |-> status, resources |-> resources, compartmentId |-> compartmentId,
     errors |-> errors]

Absent == WorkRequest("absent", <<>>, NilPtr, <<>>)

\* GetWorkRequest of a work request; the provider knows no absent one
AnswerGetWorkRequest(wr) ==
    IF wr = Absent
    THEN GetWorkRequestRet(<<ServiceLayer(404, "NotAuthorizedOrNotFound", "denied")>>,
                           "", <<>>, NilPtr)
    ELSE GetWorkRequestRet(NilErr, wr.status, wr.resources, wr.compartmentId)

TransportErr == <<PlainLayer("context canceled")>>

NoResp == GetWorkRequestRet(NilErr, "", <<>>, NilPtr)

NoList == ListErrorsRet(NilErr, <<>>)

\* a Status poll: the handle and operation asked, what the provider
\* answered (resp, and list if the error entries were fetched) and, once it
\* has run, what was returned
PollCall(handle, operation, clientErr, resp, list, ret) ==
    [handle |-> handle, operation |-> operation, clientErr |-> clientErr, resp |-> resp,
     list |-> list, done |-> TRUE, ret |-> ret]

PollPending(handle, operation, resp, list) ==
    [handle |-> handle, operation |-> operation, clientErr |-> NilErr, resp |-> resp,
     list |-> list, done |-> FALSE, ret |-> NoCall]

\* whether CheckWorkRequestStatus fetches the error entries for an answer
FetchesErrors(resp) ==
    resp.err = NilErr /\ resp.Status = WorkRequestStatusFailed /\ resp.CompartmentId # NilPtr

\* the answers of GetWorkRequest and, where it is asked, ListWorkRequestErrors
PollAnswers ==
    {<<GetWorkRequestRet(TransportErr, "", <<>>, NilPtr), NoList>>}
        \cup {<<GetWorkRequestRet(NilErr, st, <<>>, c), NoList>> :
                st \in NonTerminalStatuses \cup {WorkRequestStatusCanceled},
                c \in {NilPtr, Ptr("c1")}}
        \cup {<<GetWorkRequestRet(NilErr, WorkRequestStatusSucceeded, rs, Ptr("c1")), NoList>> :
                rs \in ResourceLists}
        \cup {<<GetWorkRequestRet(NilErr, WorkRequestStatusFailed, <<>>, NilPtr), NoList>>}
        \cup {<<GetWorkRequestRet(NilErr, WorkRequestStatusFailed, <<>>, Ptr("c1")), l>> :
                l \in {ListErrorsRet(NilErr, items) : items \in ErrorLists}
                        \cup {ListErrorsRet(TransportErr, <<>>)}}

PollInputs ==
    {PollPending(h, op, a[1], a[2]) :
        h \in Handles,
        op \in {OperationCreate, OperationUpdate, OperationDelete, OperationCheckStatus},
        a \in PollAnswers}

CallCheckWorkRequestStatus ==
    /\ ~poll.done /\ poll.handle \in Handles
    /\ poll' = [poll EXCEPT !.done = TRUE,
                   !.ret = CheckWorkRequestStatus(poll.resp, poll.list, poll.handle,
                                                  poll.operation)]
    /\ UNCHANGED <<raw, eh, plg, wrs, seen, opc, cloud, del, apd, reg, cli, tags, nsg, upd>>

InitPoller ==
    /\ raw = RawIdle
    /\ eh = EhIdle
    /\ plg = PlgIdle
    /\ wrs = <<>>
    /\ poll \in PollInputs
    /\ seen = <<>>
    /\ opc = <<>>
    /\ cloud = <<>>
    /\ del = <<>>
    /\ apd = <<>>
    /\ reg = <<>>
    /\ cli = <<>>
    /\ tags = <<>>
    /\ nsg = <<>>
    /\ upd = <<>>

NextPoller == CallCheckWorkRequestStatus

SpecPoller == InitPoller /\ [][NextPoller]_vars

\* the OperationStatus the specification gives for a work-request status
ExpectedStatus(st) ==
    CASE st \in {WorkRequestStatusAccepted, WorkRequestStatusInProgress,
                 WorkRequestStatusCanceling} -> OperationStatusInProgress
      [] st = WorkRequestStatusSucceeded -> OperationStatusSuccess
      [] st \in {WorkRequestStatusFailed, WorkRequestStatusCanceled} -> OperationStatusFailure

\* C9: CheckWorkRequestStatus maps ACCEPTED, IN_PROGRESS and CANCELING to
\* InProgress with the polled handle as RequestID, SUCCEEDED to Success,
\* FAILED to Failure, CANCELED to Failure with the fixed message "Operation
\* was canceled"; in each case the error is nil and Operation is the
\* operation passed in.
C9_WorkRequestStatusMapping ==
    (poll.done /\ poll.resp.err = NilErr /\ poll.resp.Status \in WorkRequestStatuses) =>
        /\ poll.ret.err = NilErr
        /\ ~poll.ret.panic
        /\ poll.ret.res # NilPtr
        /\ Deref(poll.ret.res).Operation = poll.operation
        /\ Deref(poll.ret.res).OperationStatus = ExpectedStatus(poll.resp.Status)
        /\ poll.resp.Status \in NonTerminalStatuses =>
              Deref(poll.ret.res).RequestID = poll.handle
        /\ poll.resp.Status = WorkRequestStatusCanceled =>
              Deref(poll.ret.res).StatusMessage = <<"Operation was canceled">>

C9_Witness ==
    /\ poll.done
    /\ poll.resp.err = NilErr
    /\ poll.resp.Status = WorkRequestStatusCanceling
    /\ poll.handle = "wr-2"
    /\ poll.operation = OperationDelete
    /\ Deref(poll.ret.res).OperationStatus = OperationStatusInProgress
    /\ Deref(poll.ret.res).RequestID = "wr-2"


\* the places in the list of the resources with this action and an
\* identifier
PlacesWith(resources, actionType) ==
    {i \in 1..Len(resources) :
        resources[i].ActionType = actionType /\ resources[i].Identifier # NilPtr}

\* the identifier of the first such resource
FirstWith(resources, actionType) ==
    LET first == CHOOSE i \in PlacesWith(resources, actionType) :
                    \A j \in PlacesWith(resources, actionType) : i <= j
    IN  Deref(resources[first].Identifier)

\* the answer was SUCCEEDED
PollSucceeded ==
    poll.done /\ poll.resp.err = NilErr /\ poll.resp.Status = WorkRequestStatusSucceeded

PollFailed ==
    poll.done /\ poll.resp.err = NilErr /\ poll.resp.Status = WorkRequestStatusFailed

\* the texts that stand for error details that could not be had
GenericTexts ==
    {"Work request failed (no compartment ID to retrieve errors)",
     "Work request failed (could not retrieve error details: ",
     "Work request failed (no error details available)",
     "Work request failed (no error messages)"}

\* the messages that the fetched error entries carry, in order
MessagesOf(items) ==
    LET present == SelectSeq(items, LAMBDA m : m # NilPtr)
    IN  [i \in 1..Len(present) |-> Deref(present[i])]

\* C13: for a FAILED work request the poll returns a Failure result and a
\* nil error whatever the fetch of the error entries gives; StatusMessage is
\* a generic text when there is no compartment id, when the fetch fails,
\* when it gives no entry or no entry with a message, and otherwise the
\* messages of the entries in their order, joined by "; ".
C13_FailedDetailsBestEffort ==
    PollFailed =>
        /\ poll.ret.err = NilErr
        /\ ~poll.ret.panic
        /\ poll.ret.res # NilPtr
        /\ Deref(poll.ret.res).OperationStatus = OperationStatusFailure
        /\ LET msg == Deref(poll.ret.res).StatusMessage
               messages == MessagesOf(poll.list.Items)
           IN  IF \/ poll.resp.CompartmentId = NilPtr
                  \/ poll.list.err # NilErr
                  \/ messages = <<>>
               THEN msg # <<>> /\ Head(msg) \in GenericTexts
               ELSE /\ Len(msg) = 2 * Len(messages) - 1
                    /\ \A i \in 1..Len(messages) : msg[2 * i - 1] = messages[i]
                    /\ \A i \in 1..(Len(messages) - 1) : msg[2 * i] = "; "

C13_Witness ==
    /\ PollFailed
    /\ poll.list.err = NilErr
    /\ poll.list.Items = <<Ptr("limit"), Ptr("quota")>>
    /\ poll.ret.res # NilPtr
    /\ Deref(poll.ret.res).StatusMessage = <<"limit", "; ", "quota">>


(***************************************************************************)
(* The lifecycle of one asynchronous operation: Plugin.Create of a cluster *)
(* starts a work request at the provider, the provider moves it through    *)
(* its states, and the caller polls with Plugin.Status whenever it likes.  *)
(***************************************************************************)
ClusterType == "OCI::ContainerEngine::Cluster"

\* the plugin's input for a call on a cluster whose operator answers inner
ClusterRequest(op, inner) ==
    [op |-> op, resourceType |-> ClusterType, nativeID |-> "", clientsErr |-> NilErr,
     inner |-> inner, read |-> NoCall]

\* CreateCluster is accepted: the provider starts work request h
LcCreateAccepted ==
    /\ ~plg.done
    /\ \E h \in Handles, c \in {NilPtr, Ptr("c1")} :
          /\ wrs[h] = Absent
          /\ wrs' = [wrs EXCEPT ![h] = WorkRequest(WorkRequestStatusAccepted, <<>>, c, <<>>)]
          /\ plg' = PluginCreate(ClusterRequest(OperationCreate,
                        ClusterCreate(NilErr, TRUE, CreateClusterRet(NilErr, Ptr(h)))))
    /\ UNCHANGED <<raw, eh, poll, seen, opc, cloud, del, apd, reg, cli, tags, nsg, upd>>

\* CreateCluster is refused, or fails on the way: no work request
LcCreateRejected ==
    /\ ~plg.done
    /\ \E e \in {<<ServiceLayer(409, "InvalidParameter", "denied")>>,
                 <<ServiceLayer(400, "InvalidParameter", "denied")>>, TransportErr} :
          plg' = PluginCreate(ClusterRequest(OperationCreate,
                     ClusterCreate(NilErr, TRUE, CreateClusterRet(e, NilPtr))))
    /\ UNCHANGED <<raw, eh, wrs, poll, seen, opc, cloud, del, apd, reg, cli, tags, nsg, upd>>

\* Create fails before CreateCluster is sent: no client, or bad properties
LcCreateNotSent ==
    /\ ~plg.done
    /\ \E clientErr \in {NilErr, <<PlainLayer("can not create client")>>} :
          plg' = PluginCreate(ClusterRequest(OperationCreate,
                     ClusterCreate(clientErr, FALSE, CreateClusterRet(NilErr, NilPtr))))
    /\ UNCHANGED <<raw, eh, wrs, poll, seen, opc, cloud, del, apd, reg, cli, tags, nsg, upd>>

\* the provider takes up an accepted work request
ProviderStart ==
    /\ \E h \in Handles :
          /\ wrs[h].status = WorkRequestStatusAccepted
          /\ wrs' = [wrs EXCEPT ![h].status = WorkRequestStatusInProgress]
    /\ UNCHANGED <<raw, eh, plg, poll, seen, opc, cloud, del, apd, reg, cli, tags, nsg, upd>>

\* a work request that is not over succeeds, with its list of resources
ProviderSucceed ==
    /\ \E h \in Handles, rs \in ResourceLists :
          /\ wrs[h].status \in NonTerminalStatuses
          /\ wrs' = [wrs EXCEPT ![h].status = WorkRequestStatusSucceeded,
                                ![h].resources = rs]
    /\ UNCHANGED <<raw, eh, plg, poll, seen, opc, cloud, del, apd, reg, cli, tags, nsg, upd>>

\* a work request that is not over fails, with its error entries
ProviderFail ==
    /\ \E h \in Handles, es \in ErrorLists :
          /\ wrs[h].status \in NonTerminalStatuses
          /\ wrs' = [wrs EXCEPT ![h].status = WorkRequestStatusFailed,
                                ![h].errors = es]
    /\ UNCHANGED <<raw, eh, plg, poll, seen, opc, cloud, del, apd, reg, cli, tags, nsg, upd>>

\* a work request is being canceled
ProviderCancel ==
    /\ \E h \in Handles :
          /\ wrs[h].status \in {WorkRequestStatusAccepted, WorkRequestStatusInProgress}
          /\ wrs' = [wrs EXCEPT ![h].status = WorkRequestStatusCanceling]
    /\ UNCHANGED <<raw, eh, plg, poll, seen, opc, cloud, del, apd, reg, cli, tags, nsg, upd>>

\* the cancellation is over
ProviderCanceled ==
    /\ \E h \in Handles :
          /\ wrs[h].status = WorkRequestStatusCanceling
          /\ wrs' = [wrs EXCEPT ![h].status = WorkRequestStatusCanceled]
    /\ UNCHANGED <<raw, eh, plg, poll, seen, opc, cloud, del, apd, reg, cli, tags, nsg, upd>>

\* the OperationStatus values of the results that polls of a handle returned
SeenAfter(h, ret) ==
    IF ret.res # NilPtr /\ ~ret.panic
    THEN [seen EXCEPT ![h] = @ \cup {Deref(ret.res).OperationStatus}]
    ELSE seen

\* Plugin.Status of handle h, which reaches ClusterProvisioner.Status through
\* the decorator: the client may be missing, the query of the work request
\* may fail on the way (transport), and so may the fetch of its error
\* entries (listFails)
LcStatus ==
    /\ \E h \in Handles, clientErr \in {NilErr, <<PlainLayer("can not create client")>>},
          transport \in BOOLEAN, listFails \in BOOLEAN :
          LET resp == IF clientErr # NilErr THEN NoResp
                      ELSE IF transport
                      THEN GetWorkRequestRet(TransportErr, "", <<>>, NilPtr)
                      ELSE AnswerGetWorkRequest(wrs[h])
              list == IF clientErr # NilErr \/ ~FetchesErrors(resp) THEN NoList
                      ELSE IF listFails THEN ListErrorsRet(TransportErr, <<>>)
                      ELSE ListErrorsRet(NilErr, wrs[h].errors)
              ret == PluginPass(ClusterRequest("Status",
                         ClusterStatus(clientErr, resp, list, h))).ret
          IN  /\ poll' = PollCall(h, OperationCheckStatus, clientErr, resp, list, ret)
              /\ seen' = SeenAfter(h, ret)
    /\ UNCHANGED <<raw, eh, plg, wrs, opc, cloud, del, apd, reg, cli, tags, nsg, upd>>

InitLifecycle ==
    /\ raw = RawIdle
    /\ eh = EhIdle
    /\ plg = PlgPending(OperationCreate, ClusterType, "", NilErr, NoCall, NoCall)
    /\ wrs = [h \in Handles |-> Absent]
    /\ poll = PollIdle
    /\ seen = [h \in Handles |-> {}]
    /\ opc = <<>>
    /\ cloud = <<>>
    /\ del = <<>>
    /\ apd = <<>>
    /\ reg = <<>>
    /\ cli = <<>>
    /\ tags = <<>>
    /\ nsg = <<>>
    /\ upd = <<>>

NextLifecycle ==
    \/ LcCreateAccepted
    \/ LcCreateRejected
    \/ LcCreateNotSent
    \/ ProviderStart
    \/ ProviderSucceed
    \/ ProviderFail
    \/ ProviderCancel
    \/ ProviderCanceled
    \/ LcStatus

SpecLifecycle == InitLifecycle /\ [][NextLifecycle]_vars

(***************************************************************************)
(* Properties of the lifecycle.                                            *)
(***************************************************************************)
\* the poll was answered by the provider with a status
PollAnswered == poll.done /\ poll.clientErr = NilErr /\ poll.resp.err = NilErr

\* the poll returned a result with this OperationStatus and no error
PollReturned(status) ==
    /\ poll.ret.err = NilErr
    /\ poll.ret.res # NilPtr
    /\ Deref(poll.ret.res).OperationStatus = status

\* the places of the CREATED resources that have an identifier
CreatedAt(resources) ==
    {i \in 1..Len(resources) :
        resources[i].ActionType = ActionTypeCreated /\ resources[i].Identifier # NilPtr}

\* Create returned InProgress with the handle of the work request started
LcCreateGivesHandle ==
    /\ \A h \in Handles :
          wrs[h] # Absent =>
              /\ plg.done
              /\ plg.ret.err = NilErr
              /\ plg.ret.res # NilPtr
              /\ Deref(plg.ret.res).OperationStatus = OperationStatusInProgress
              /\ Deref(plg.ret.res).RequestID = h
    /\ (plg.done /\ plg.ret.res # NilPtr
            /\ Deref(plg.ret.res).OperationStatus = OperationStatusInProgress) =>
          /\ Deref(plg.ret.res).RequestID \in Handles
          /\ wrs[Deref(plg.ret.res).RequestID] # Absent

\* a poll answered with a non-terminal state returns InProgress and the
\* handle polled
LcNonTerminalIsInProgress ==
    (PollAnswered /\ poll.resp.Status \in NonTerminalStatuses) =>
        (PollReturned(OperationStatusInProgress)
            /\ Deref(poll.ret.res).RequestID = poll.handle)

\* a poll answered SUCCEEDED with a created resource returns Success and
\* that resource's identifier
LcSucceededIsSuccess ==
    (PollAnswered /\ poll.resp.Status = WorkRequestStatusSucceeded
        /\ CreatedAt(poll.resp.Resources) # {}) =>
        LET first == CHOOSE i \in CreatedAt(poll.resp.Resources) :
                        \A j \in CreatedAt(poll.resp.Resources) : i <= j
        IN  /\ PollReturned(OperationStatusSuccess)
            /\ Deref(poll.ret.res).NativeID = Deref(poll.resp.Resources[first].Identifier)

\* a poll of a handle of which a poll has returned Success or Failure does
\* not return InProgress
LcNoInProgressAfterTerminal ==
    \A h \in Handles :
        (/\ poll' # poll
         /\ poll'.handle = h
         /\ seen[h] \cap {OperationStatusSuccess, OperationStatusFailure} # {})
        => ~(poll'.ret.res # NilPtr
                /\ Deref(poll'.ret.res).OperationStatus = OperationStatusInProgress)

\* C10: Create returns InProgress with the provider's work-request id h as
\* RequestID; every poll of h answered while the work request is in a
\* non-terminal state returns InProgress with RequestID h; once the
\* provider reports SUCCEEDED with a created resource r, a poll returns
\* Success with NativeID r; and no poll of h returns InProgress after a poll
\* of h has returned Success or Failure.
C10_AsyncLifecycle ==
    /\ [](LcCreateGivesHandle /\ LcNonTerminalIsInProgress /\ LcSucceededIsSuccess)
    /\ [][LcNoInProgressAfterTerminal]_vars

C10_Witness ==
    /\ plg.done
    /\ plg.ret.res # NilPtr
    /\ Deref(plg.ret.res).RequestID = "wr-2"
    /\ poll.done
    /\ poll.handle = "wr-2"
    /\ PollReturned(OperationStatusSuccess)
    /\ Deref(poll.ret.res).NativeID = "r-42"
    /\ seen["wr-2"] = {OperationStatusInProgress, OperationStatusSuccess}


(***************************************************************************)
(* Repeated polls of one work request.  The provider holds one work        *)
(* request and moves it through its states; the caller polls any handle at *)
(* any moment, any number of times.                                        *)
(***************************************************************************)
TerminalStatuses == WorkRequestStatuses \ NonTerminalStatuses

\* one Plugin.Status of handle h: the calls it makes of the provider
\* (GetWorkRequest and, for a FAILED work request with a compartment id,
\* ListWorkRequestErrors) read the work request and change nothing
StatusPoll(h, clientErr, transport, listFails) ==
    LET resp == IF clientErr # NilErr THEN NoResp
                ELSE IF transport
                THEN GetWorkRequestRet(TransportErr, "", <<>>, NilPtr)
                ELSE AnswerGetWorkRequest(wrs[h])
        list == IF clientErr # NilErr \/ ~FetchesErrors(resp) THEN NoList
                ELSE IF listFails THEN ListErrorsRet(TransportErr, <<>>)
                ELSE ListErrorsRet(NilErr, wrs[h].errors)
        ret == PluginPass(ClusterRequest("Status",
                   ClusterStatus(clientErr, resp, list, h))).ret
    IN  PollCall(h, OperationCheckStatus, clientErr, resp, list, ret)

\* the results that the polls of a handle returned while its work request
\* was in a terminal state, each with the answer of the error-entries fetch
PolledAfter(h, p) ==
    IF wrs[h].status \in TerminalStatuses /\ p.ret.res # NilPtr /\ ~p.ret.panic
    THEN [seen EXCEPT ![h] = @ \cup {[list |-> p.list, res |-> Deref(p.ret.res)]}]
    ELSE seen

PgStatus ==
    /\ \E h \in Handles, clientErr \in {NilErr, <<PlainLayer("can not create client")>>},
          transport \in BOOLEAN, listFails \in BOOLEAN :
          LET p == StatusPoll(h, clientErr, transport, listFails)
          IN  /\ poll' = p
              /\ seen' = PolledAfter(h, p)
    /\ UNCHANGED <<raw, eh, plg, wrs, opc, cloud, del, apd, reg, cli, tags, nsg, upd>>

InitPolling ==
    /\ raw = RawIdle
    /\ eh = EhIdle
    /\ plg = PlgIdle
    /\ \E h \in Handles, c \in {NilPtr, Ptr("c1")} :
          wrs = [g \in Handles |->
                    IF g = h THEN WorkRequest(WorkRequestStatusAccepted, <<>>, c, <<>>)
                    ELSE Absent]
    /\ poll = PollIdle
    /\ seen = [h \in Handles |-> {}]
    /\ opc = <<>>
    /\ cloud = <<>>
    /\ del = <<>>
    /\ apd = <<>>
    /\ reg = <<>>
    /\ cli = <<>>
    /\ tags = <<>>
    /\ nsg = <<>>
    /\ upd = <<>>

NextPolling ==
    \/ ProviderStart
    \/ ProviderSucceed
    \/ ProviderFail
    \/ ProviderCancel
    \/ ProviderCanceled
    \/ PgStatus

SpecPolling == InitPolling /\ [][NextPolling]_vars

\* the fields of a result that the claim compares, StatusMessage apart
PgFields(r) == <<r.OperationStatus, r.NativeID, r.RequestID, r.ErrorCode>>

\* a poll leaves the work requests and the plugin's own state as they were
PgPollChangesNothing == (poll' # poll) => (wrs' = wrs /\ plg' = plg /\ raw' = raw)

\* C11 as claimed: once the work request is in a terminal state, any two
\* polls of its handle return results with the same OperationStatus,
\* NativeID, RequestID, ErrorCode and StatusMessage.
C11_TerminalPollsEqual_Original ==
    \A h \in Handles : \A a, b \in seen[h] :
        PgFields(a.res) = PgFields(b.res) /\ a.res.StatusMessage = b.res.StatusMessage

\* C11, amended: a poll changes no plugin-side or provider-side state, and
\* once the work request is in a terminal state any two polls of its handle
\* that return a result return the same OperationStatus, NativeID,
\* RequestID and ErrorCode, and the same StatusMessage whenever the fetch of
\* the error entries had the same outcome in both.
C11_TerminalPollsEqualUpToFetch ==
    /\ [](\A h \in Handles : \A a, b \in seen[h] :
            /\ PgFields(a.res) = PgFields(b.res)
            /\ a.list = b.list => a.res = b.res)
    /\ [][PgPollChangesNothing]_vars

C11_Witness ==
    /\ wrs["wr-1"].status = WorkRequestStatusFailed
    /\ wrs["wr-1"].errors = <<Ptr("quota"), Ptr("limit")>>
    /\ Cardinality(seen["wr-1"]) = 2
    /\ \E a \in seen["wr-1"] : a.res.StatusMessage = <<"quota", "; ", "limit">>
    /\ \E a \in seen["wr-1"] : a.list.err # NilErr

\* a call of the provider that the poll made ended with a transport error
\* or with the cancellation of the caller's context
PollCutShort == poll.done /\ (poll.resp.err = TransportErr \/ poll.list.err = TransportErr)

\* C14 as claimed: a poll during which the query of the work request fails
\* or the caller's context is cancelled returns a nil result and a non-nil
\* error; and a Failure result is returned only when the provider reported
\* FAILED or CANCELED.
C14_PollFailureIsHardError_Original ==
    /\ PollCutShort => (poll.ret.res = NilPtr /\ poll.ret.err # NilErr)
    /\ (poll.done /\ PollReturned(OperationStatusFailure)) =>
          /\ poll.resp.err = NilErr
          /\ poll.resp.Status \in {WorkRequestStatusFailed, WorkRequestStatusCanceled}


(***************************************************************************)
(* The operators that work asynchronously: the three of the container      *)
(* engine (Cluster, NodePool, VirtualNodePool), which hand out the id of a  *)
(* work request, and the compute instance, which is polled by its own id.  *)
(***************************************************************************)
ContainerEngineTypes ==
    {"OCI::ContainerEngine::Cluster", "OCI::ContainerEngine::NodePool",
     "OCI::ContainerEngine::VirtualNodePool"}

InstanceType == "OCI::Core::Instance"

\* what the provider answers to an update or a delete of a container engine
\* resource: an error, or the id of the work request (OpcWorkRequestId)
WorkRequestStarted(err, opcWorkRequestId) ==
    [err |-> err, OpcWorkRequestId |-> opcWorkRequestId]

\* ClusterProvisioner.Update (NodePool and VirtualNodePool alike): patchErr
\* is the error of ApplyPatchDocument
ClusterUpdate(clientErr, patchErr, resp) ==
    IF clientErr # NilErr
    THEN Ret(NilPtr, Errorf("failed to get ContainerEngine client", clientErr))
    ELSE IF patchErr # NilErr
    THEN Ret(NilPtr, patchErr)
    ELSE IF resp.err # NilErr
    THEN Ret(NilPtr, Errorf("failed to update Cluster", resp.err))
    ELSE IF resp.OpcWorkRequestId = NilPtr
    THEN Panic
    ELSE Ret(Ptr(CreateInProgressResult(OperationUpdate, Deref(resp.OpcWorkRequestId))), NilErr)

\* ClusterProvisioner.Delete (NodePool and VirtualNodePool alike): read is
\* what p.Read returns, resp what the provider answers to the delete
ClusterDelete(clientErr, read, resp, nativeID) ==
    IF clientErr # NilErr
    THEN Ret(NilPtr, Errorf("failed to get ContainerEngine client", clientErr))
    ELSE IF read.err # NilErr
    THEN Ret(NilPtr, Errorf("failed to read Cluster before delete", read.err))
    ELSE IF read.res = NilPtr
    THEN Panic
    ELSE IF Deref(read.res).ErrorCode = OperationErrorCodeNotFound
    THEN Ret(Ptr(ProgressResult(OperationDelete, OperationStatusSuccess,
                    OperationErrorCodeNotSet, <<>>, nativeID, "", <<>>)), NilErr)
    ELSE IF resp.err # NilErr
    THEN Ret(NilPtr, Errorf("failed to delete Cluster", resp.err))
    ELSE IF resp.OpcWorkRequestId = NilPtr
    THEN Panic
    ELSE Ret(Ptr(CreateInProgressResult(OperationDelete, Deref(resp.OpcWorkRequestId))), NilErr)

\* what LaunchInstance answers: an error, or the instance with its Id
LaunchInstanceRet(err, id) == [err |-> err, Id |-> id]

\* InstanceProvisioner.Create: props is "ok", "malformed" (not JSON) or
\* "incomplete" (a required string is missing: the type assertion panics)
InstanceCreate(clientErr, props, resp) ==
    IF clientErr # NilErr
    THEN Ret(NilPtr, Errorf("failed to get Compute client", clientErr))
    ELSE IF props = "malformed"
    THEN Ret(NilPtr, Errorf("failed to parse properties", <<PlainLayer("invalid character")>>))
    ELSE IF props = "incomplete"
    THEN Panic
    ELSE IF resp.err # NilErr
    THEN Ret(NilPtr, Errorf("failed to create Instance", resp.err))
    ELSE IF resp.Id = NilPtr
    THEN Panic
    ELSE Ret(Ptr(ProgressResult(OperationCreate, OperationStatusInProgress,
                    OperationErrorCodeNotSet, <<>>, Deref(resp.Id), Deref(resp.Id), <<>>)),
             NilErr)

\* faulty variant: the instance being terminated is named in NativeID only
InstanceDeleteWithoutRequestID(clientErr, read, resp, nativeID) ==
    IF clientErr # NilErr
    THEN Ret(NilPtr, Errorf("failed to get Compute client", clientErr))
    ELSE IF read.err # NilErr
    THEN Ret(NilPtr, Errorf("failed to read Instance before delete", read.err))
    ELSE IF read.res = NilPtr
    THEN Panic
    ELSE IF Deref(read.res).ErrorCode = OperationErrorCodeNotFound
    THEN Ret(Ptr(ProgressResult(OperationDelete, OperationStatusSuccess,
                    OperationErrorCodeNotSet, <<>>, nativeID, "", <<>>)), NilErr)
    ELSE IF resp.err # NilErr
    THEN Ret(NilPtr, Errorf("failed to delete Instance", resp.err))
    ELSE Ret(Ptr(ProgressResult(OperationDelete, OperationStatusInProgress,
                    OperationErrorCodeNotSet, <<>>, nativeID, "", <<>>)), NilErr)

\* InstanceProvisioner.Delete: read is what p.Read returns, resp what
\* TerminateInstance answers
InstanceDelete(clientErr, read, resp, nativeID) ==
    IF clientErr # NilErr
    THEN Ret(NilPtr, Errorf("failed to get Compute client", clientErr))
    ELSE IF read.err # NilErr
    THEN Ret(NilPtr, Errorf("failed to read Instance before delete", read.err))
    ELSE IF read.res = NilPtr
    THEN Panic
    ELSE IF Deref(read.res).ErrorCode = OperationErrorCodeNotFound
    THEN Ret(Ptr(ProgressResult(OperationDelete, OperationStatusSuccess,
                    OperationErrorCodeNotSet, <<>>, nativeID, "", <<>>)), NilErr)
    ELSE IF resp.err # NilErr
    THEN Ret(NilPtr, Errorf("failed to delete Instance", resp.err))
    ELSE Ret(Ptr(ProgressResult(OperationDelete, OperationStatusInProgress,
                    OperationErrorCodeNotSet, <<>>, nativeID, nativeID, <<>>)), NilErr)

InstanceLifecycleStates ==
    {"PROVISIONING", "STARTING", "RUNNING", "STOPPING", "STOPPED", "TERMINATING",
     "TERMINATED"}

\* what GetInstance answers: an error, or the instance
GetInstanceRet(err, id, lifecycleState) ==
    [err |-> err, Id |-> id, LifecycleState |-> lifecycleState]

\* buildInstanceProperties and json.Marshal: the properties of an instance,
\* as bytes
InstanceProperties(id) == IF id = NilPtr THEN <<1>> ELSE <<1, 2>>

\* InstanceProvisioner.Status reporting a terminated instance as a failure
InstanceStatusTerminatedFails(clientErr, resp, requestID) ==
    IF clientErr # NilErr
    THEN Ret(NilPtr, Errorf("failed to get Compute client", clientErr))
    ELSE IF resp.err # NilErr
    THEN IF IsServiceError(resp.err) /\ Head(resp.err).status = 404
         THEN Ret(Ptr(ProgressResult(OperationCheckStatus, OperationStatusSuccess,
                         OperationErrorCodeNotSet, <<>>, requestID, "", <<>>)), NilErr)
         ELSE Ret(NilPtr, Errorf("failed to check Instance status", resp.err))
    ELSE IF resp.LifecycleState \in {"RUNNING", "STOPPED"}
    THEN IF resp.Id = NilPtr THEN Panic
         ELSE Ret(Ptr(ProgressResult(OperationCheckStatus, OperationStatusSuccess,
                         OperationErrorCodeNotSet, <<>>, Deref(resp.Id), "",
                         InstanceProperties(resp.Id))), NilErr)
    ELSE IF resp.LifecycleState = "TERMINATED"
    THEN IF resp.Id = NilPtr THEN Panic
         ELSE Ret(Ptr(ProgressResult(OperationCheckStatus, OperationStatusFailure,
                         OperationErrorCodeNotSet, <<>>, Deref(resp.Id), "", <<>>)), NilErr)
    ELSE Ret(Ptr(ProgressResult(OperationCheckStatus, OperationStatusInProgress,
                    OperationErrorCodeNotSet,
                    <<"Instance lifecycle state: ", resp.LifecycleState>>,
                    "", requestID, <<>>)), NilErr)

\* InstanceProvisioner.Status
InstanceStatus(clientErr, resp, requestID) ==
    IF clientErr # NilErr
    THEN Ret(NilPtr, Errorf("failed to get Compute client", clientErr))
    ELSE IF resp.err # NilErr
    THEN IF IsServiceError(resp.err) /\ Head(resp.err).status = 404
         THEN Ret(Ptr(ProgressResult(OperationCheckStatus, OperationStatusSuccess,
                         OperationErrorCodeNotSet, <<>>, requestID, "", <<>>)), NilErr)
         ELSE Ret(NilPtr, Errorf("failed to check Instance status", resp.err))
    ELSE IF resp.LifecycleState \in {"RUNNING", "STOPPED"}
    THEN IF resp.Id = NilPtr THEN Panic
         ELSE Ret(Ptr(ProgressResult(OperationCheckStatus, OperationStatusSuccess,
                         OperationErrorCodeNotSet, <<>>, Deref(resp.Id), "",
                         InstanceProperties(resp.Id))), NilErr)
    ELSE IF resp.LifecycleState = "TERMINATED"
    THEN IF resp.Id = NilPtr THEN Panic
         ELSE Ret(Ptr(ProgressResult(OperationCheckStatus, OperationStatusSuccess,
                         OperationErrorCodeNotSet, <<>>, Deref(resp.Id), "", <<>>)), NilErr)
    ELSE Ret(Ptr(ProgressResult(OperationCheckStatus, OperationStatusInProgress,
                    OperationErrorCodeNotSet,
                    <<"Instance lifecycle state: ", resp.LifecycleState>>,
                    "", requestID, <<>>)), NilErr)

\* a call of an asynchronous operator: the request (nativeID, requestID),
\* what the operator meets on its way (clientErr of the client getter, props
\* of the request, patchErr of ApplyPatchDocument, read of its own Read) and
\* what the provider answers (respErr, or the identifier it issued and the
\* state of the work request or of the instance), and once it has run what
\* it returned
OpcPending(type, op, nativeID, requestID, clientErr, props, patchErr, read, respErr, issued, state) ==
    [type |-> type, op |-> op, nativeID |-> nativeID, requestID |-> requestID,
     clientErr |-> clientErr, props |-> props, patchErr |-> patchErr, read |-> read,
     respErr |-> respErr, issued |-> issued, state |-> state, done |-> FALSE,
     ret |-> NoCall]

\* the identifiers a provider answer may carry (a *string)
IssuedIds == {NilPtr, Ptr(""), Ptr("ocid1")}

\* the identifiers a request may carry
RequestIds == {"", "ocid1"}

OpcClientErrs == {NilErr, <<PlainLayer("can not create client")>>}

OpcRespErrs == {NilErr, TransportErr, <<ServiceLayer(404, "NotAuthorizedOrNotFound", "denied")>>, <<ServiceLayer(500, "InternalServerError", "failed")>>}

\* what the operator's own Read returns before a delete
OpcReads ==
    {Ret(Ptr(ReadResult("T", <<1>>, OperationErrorCodeNotSet)), NilErr),
     Ret(Ptr(ReadResult("T", <<>>, OperationErrorCodeNotFound)), NilErr),
     Ret(NilPtr, <<PlainLayer("boom")>>)}

OpcInputs ==
    {OpcPending(t, OperationCreate, "", "", ce, pr, NilErr, NoCall, re, id, "") :
        t \in ContainerEngineTypes, ce \in OpcClientErrs,
        pr \in {"ok", "malformed"}, re \in OpcRespErrs, id \in IssuedIds}
    \cup
    {OpcPending(InstanceType, OperationCreate, "", "", ce, pr, NilErr, NoCall, re, id, "") :
        ce \in OpcClientErrs, pr \in {"ok", "malformed", "incomplete"},
        re \in OpcRespErrs, id \in IssuedIds}
    \cup
    {OpcPending(t, OperationUpdate, n, "", ce, "ok", pe, NoCall, re, id, "") :
        t \in ContainerEngineTypes, n \in RequestIds, ce \in OpcClientErrs,
        pe \in {NilErr, <<PlainLayer("failed to parse patch document")>>},
        re \in OpcRespErrs, id \in IssuedIds}
    \cup
    {OpcPending(t, OperationDelete, n, "", ce, "ok", NilErr, rd, re, id, "") :
        t \in ContainerEngineTypes \cup {InstanceType}, n \in RequestIds,
        ce \in OpcClientErrs, rd \in OpcReads, re \in OpcRespErrs, id \in IssuedIds}
    \cup
    {OpcPending(t, OperationCheckStatus, "", rq, ce, "ok", NilErr, NoCall, re, Ptr("ocid1"), st) :
        t \in ContainerEngineTypes, rq \in RequestIds, ce \in OpcClientErrs,
        re \in OpcRespErrs, st \in WorkRequestStatuses}
    \cup
    {OpcPending(InstanceType, OperationCheckStatus, "", rq, ce, "ok", NilErr, NoCall, re, id, st) :
        rq \in RequestIds, ce \in OpcClientErrs, re \in OpcRespErrs, id \in IssuedIds,
        st \in InstanceLifecycleStates}

OpcReturns(ret) == opc' = [opc EXCEPT !.done = TRUE, !.ret = ret]

\* Create of a container engine operator
OpcCreate ==
    /\ ~opc.done /\ opc.op = OperationCreate /\ opc.type \in ContainerEngineTypes
    /\ OpcReturns(ClusterCreate(opc.clientErr, opc.props = "ok",
                                CreateClusterRet(opc.respErr, opc.issued)))
    /\ UNCHANGED <<raw, eh, plg, wrs, poll, seen, cloud, del, apd, reg, cli, tags, nsg, upd>>

\* Update of a container engine operator
OpcUpdate ==
    /\ ~opc.done /\ opc.op = OperationUpdate /\ opc.type \in ContainerEngineTypes
    /\ OpcReturns(ClusterUpdate(opc.clientErr, opc.patchErr,
                                WorkRequestStarted(opc.respErr, opc.issued)))
    /\ UNCHANGED <<raw, eh, plg, wrs, poll, seen, cloud, del, apd, reg, cli, tags, nsg, upd>>

\* Delete of a container engine operator
OpcDelete ==
    /\ ~opc.done /\ opc.op = OperationDelete /\ opc.type \in ContainerEngineTypes
    /\ OpcReturns(ClusterDelete(opc.clientErr, opc.read,
                                WorkRequestStarted(opc.respErr, opc.issued), opc.nativeID))
    /\ UNCHANGED <<raw, eh, plg, wrs, poll, seen, cloud, del, apd, reg, cli, tags, nsg, upd>>

\* Status of a container engine operator
OpcStatus ==
    /\ ~opc.done /\ opc.op = OperationCheckStatus /\ opc.type \in ContainerEngineTypes
    /\ OpcReturns(ClusterStatus(opc.clientErr,
                     GetWorkRequestRet(opc.respErr, opc.state, <<>>, NilPtr), NoList,
                     opc.requestID))
    /\ UNCHANGED <<raw, eh, plg, wrs, poll, seen, cloud, del, apd, reg, cli, tags, nsg, upd>>

OpcInstanceCreate ==
    /\ ~opc.done /\ opc.op = OperationCreate /\ opc.type = InstanceType
    /\ OpcReturns(InstanceCreate(opc.clientErr, opc.props,
                                 LaunchInstanceRet(opc.respErr, opc.issued)))
    /\ UNCHANGED <<raw, eh, plg, wrs, poll, seen, cloud, del, apd, reg, cli, tags, nsg, upd>>

OpcInstanceDelete ==
    /\ ~opc.done /\ opc.op = OperationDelete /\ opc.type = InstanceType
    /\ OpcReturns(InstanceDelete(opc.clientErr, opc.read, [err |-> opc.respErr],
                                 opc.nativeID))
    /\ UNCHANGED <<raw, eh, plg, wrs, poll, seen, cloud, del, apd, reg, cli, tags, nsg, upd>>

OpcInstanceStatus ==
    /\ ~opc.done /\ opc.op = OperationCheckStatus /\ opc.type = InstanceType
    /\ OpcReturns(InstanceStatus(opc.clientErr,
                                 GetInstanceRet(opc.respErr, opc.issued, opc.state),
                                 opc.requestID))
    /\ UNCHANGED <<raw, eh, plg, wrs, poll, seen, cloud, del, apd, reg, cli, tags, nsg, upd>>

InitAsync ==
    /\ raw = RawIdle
    /\ eh = EhIdle
    /\ plg = PlgIdle
    /\ wrs = <<>>
    /\ poll = PollIdle
    /\ seen = <<>>
    /\ opc \in OpcInputs
    /\ cloud = <<>>
    /\ del = <<>>
    /\ apd = <<>>
    /\ reg = <<>>
    /\ cli = <<>>
    /\ tags = <<>>
    /\ nsg = <<>>
    /\ upd = <<>>

NextAsync ==
    \/ OpcCreate
    \/ OpcUpdate
    \/ OpcDelete
    \/ OpcStatus
    \/ OpcInstanceCreate
    \/ OpcInstanceDelete
    \/ OpcInstanceStatus

SpecAsync == InitAsync /\ [][NextAsync]_vars

\* the operator returned a result with OperationStatus InProgress
OpcInProgress ==
    /\ opc.done
    /\ opc.ret.res # NilPtr
    /\ Deref(opc.ret.res).OperationStatus = OperationStatusInProgress

\* the identifier the provider issued is not empty, a Status request
\* carries a RequestID and a Delete request the NativeID of its target
OpcIdsGiven ==
    /\ opc.issued # Ptr("")
    /\ opc.op = OperationCheckStatus => opc.requestID # ""
    /\ opc.op = OperationDelete => opc.nativeID # ""

\* C15: a result with OperationStatus InProgress that an operator's Create,
\* Update, Delete or Status returns has a non-empty RequestID, when the
\* identifiers issued by the provider are non-empty and Status is called
\* with a RequestID; its NativeID may be empty or set.
C15_InProgressHasRequestID ==
    (OpcInProgress /\ OpcIdsGiven) => Deref(opc.ret.res).RequestID # ""

C15_Witness ==
    /\ OpcInProgress
    /\ OpcIdsGiven
    /\ opc.type = InstanceType
    /\ opc.op = OperationDelete
    /\ Deref(opc.ret.res).NativeID = "ocid1"
    /\ Deref(opc.ret.res).RequestID = "ocid1"

\* a Status call of the instance operator has returned
OpcInstancePolled ==
    /\ opc.done
    /\ opc.type = InstanceType
    /\ opc.op = OperationCheckStatus

\* C30: InstanceProvisioner.Status never returns OperationStatus Failure.
\* When it cannot get its client or the provider answers with an error
\* other than 404 it returns that error wrapped and no result; on 404 it
\* returns Success with the request's RequestID as NativeID; for an instance
\* that is RUNNING, STOPPED or TERMINATED (and carries its Id) it returns
\* Success with that Id; for every other lifecycle state it returns
\* InProgress with the request's RequestID.
C30_InstanceStatusNeverFails ==
    OpcInstancePolled =>
        LET r == opc.ret
            notFound == IsServiceError(opc.respErr) /\ Head(opc.respErr).status = 404
            settled == opc.state \in {"RUNNING", "STOPPED", "TERMINATED"}
        IN  /\ r.res # NilPtr => Deref(r.res).OperationStatus # OperationStatusFailure
            /\ opc.clientErr # NilErr =>
                    r.res = NilPtr /\ r.err # NilErr /\ Unwrap(r.err) = opc.clientErr
            /\ (opc.clientErr = NilErr /\ opc.respErr # NilErr /\ ~notFound) =>
                    r.res = NilPtr /\ r.err # NilErr /\ Unwrap(r.err) = opc.respErr
            /\ (opc.clientErr = NilErr /\ notFound) =>
                    /\ r.err = NilErr /\ r.res # NilPtr
                    /\ Deref(r.res).OperationStatus = OperationStatusSuccess
                    /\ Deref(r.res).NativeID = opc.requestID
            /\ (opc.clientErr = NilErr /\ opc.respErr = NilErr /\ settled /\ opc.issued # NilPtr) =>
                    /\ r.err = NilErr /\ r.res # NilPtr
                    /\ Deref(r.res).OperationStatus = OperationStatusSuccess
                    /\ Deref(r.res).NativeID = Deref(opc.issued)
            /\ (opc.clientErr = NilErr /\ opc.respErr = NilErr /\ ~settled) =>
                    /\ r.err = NilErr /\ r.res # NilPtr
                    /\ Deref(r.res).OperationStatus = OperationStatusInProgress
                    /\ Deref(r.res).RequestID = opc.requestID

\* a poll that finds the instance TERMINATED returns Success
C30_Witness ==
    /\ OpcInstancePolled
    /\ opc.clientErr = NilErr /\ opc.respErr = NilErr
    /\ opc.state = "TERMINATED"
    /\ opc.issued = Ptr("ocid1")
    /\ opc.ret.res # NilPtr
    /\ Deref(opc.ret.res).OperationStatus = OperationStatusSuccess


(***************************************************************************)
(* Deletion.  The provider holds one resource of a registered type; two    *)
(* Plugin.Delete calls for its native id run, each in two steps when the   *)
(* operator checks that the target exists before it deletes it: the check  *)
(* (its own Read) and the call of the provider's delete endpoint.  The     *)
(* steps of the two calls interleave in every way.                         *)
(***************************************************************************)
NsgRuleType == "OCI::Core::NetworkSecurityGroupSecurityRule"

\* how the operator of a type deletes: "direct" calls the delete endpoint
\* at once, the others read first; "workRequest" and "instance" return
\* InProgress after the delete call, "sync" returns Success
DeleteStyle(type) ==
    IF type = NsgRuleType THEN "direct"
    ELSE IF type \in ContainerEngineTypes THEN "workRequest"
    ELSE IF type = InstanceType THEN "instance"
    ELSE "sync"

NotFoundErr == <<ServiceLayer(404, "NotAuthorizedOrNotFound", "denied")>>

ConflictErr == <<ServiceLayer(409, "InvalidParameter", "denied")>>

\* VCNProvisioner.Read and the Read of every other operator that reads
\* with one Get call: resp is the answer of the Get call
VCNRead(clientErr, resp) ==
    IF clientErr # NilErr
    THEN Ret(NilPtr, Errorf("failed to get VirtualNetwork client", clientErr))
    ELSE IF resp.err # NilErr
    THEN IF IsServiceError(resp.err) /\ Head(resp.err).status = 404
         THEN Ret(Ptr(ReadResult("T", <<>>, OperationErrorCodeNotFound)), NilErr)
         ELSE Ret(NilPtr, Errorf("failed to read VCN", resp.err))
    ELSE Ret(Ptr(ReadResult("T", <<1>>, OperationErrorCodeNotSet)), NilErr)

\* VCNProvisioner.Delete and the Delete of every other operator that
\* deletes synchronously after a Read
VCNDelete(clientErr, read, resp, nativeID) ==
    IF clientErr # NilErr
    THEN Ret(NilPtr, Errorf("failed to get VirtualNetwork client", clientErr))
    ELSE IF read.err # NilErr
    THEN Ret(NilPtr, Errorf("failed to read VCN before delete", read.err))
    ELSE IF read.res = NilPtr
    THEN Panic
    ELSE IF Deref(read.res).ErrorCode = OperationErrorCodeNotFound
    THEN Ret(Ptr(ProgressResult(OperationDelete, OperationStatusSuccess,
                    OperationErrorCodeNotSet, <<>>, nativeID, "", <<>>)), NilErr)
    ELSE IF resp.err # NilErr
    THEN Ret(NilPtr, Errorf("failed to delete VCN", resp.err))
    ELSE Ret(Ptr(ProgressResult(OperationDelete, OperationStatusSuccess,
                    OperationErrorCodeNotSet, <<>>, nativeID, "", <<>>)), NilErr)

\* NetworkSecurityGroupSecurityRuleProvisioner.Delete: no Read; parseErr is
\* the error of parseNativeID, resp the answer of
\* RemoveNetworkSecurityGroupSecurityRules
NetworkSecurityGroupSecurityRuleDelete(clientErr, parseErr, resp, nativeID) ==
    IF clientErr # NilErr
    THEN Ret(NilPtr, Errorf("failed to get VirtualNetwork client", clientErr))
    ELSE IF parseErr # NilErr
    THEN Ret(NilPtr, parseErr)
    ELSE IF resp.err # NilErr /\ ~(IsServiceError(resp.err) /\ Head(resp.err).status = 404)
    THEN Ret(NilPtr, Errorf("failed to delete NetworkSecurityGroupSecurityRule", resp.err))
    ELSE Ret(Ptr(ProgressResult(OperationDelete, OperationStatusSuccess,
                    OperationErrorCodeNotSet, <<>>, nativeID, "", <<>>)), NilErr)

\* the Delete of the operator registered for a type
OperatorDelete(type, read, resp, nativeID) ==
    CASE DeleteStyle(type) = "direct" ->
            NetworkSecurityGroupSecurityRuleDelete(NilErr, NilErr, resp, nativeID)
      [] DeleteStyle(type) = "workRequest" ->
            ClusterDelete(NilErr, read, WorkRequestStarted(resp.err, Ptr("wr-1")), nativeID)
      [] DeleteStyle(type) = "instance" ->
            InstanceDelete(NilErr, read, resp, nativeID)
      [] OTHER -> VCNDelete(NilErr, read, resp, nativeID)

\* Plugin.Delete around the operator's Delete: what the caller gets
PluginDeleteRet(type, nativeID, o) ==
    PluginDelete(PlgPending(OperationDelete, type, nativeID, NilErr, o, NoCall)).ret

Callers == {1, 2}

TargetID == "ocid1"

\* the provider's side: the type of the target, whether it exists, whether
\* a deletion of it is under way, and how many calls its delete endpoint
\* has received
Cloud(type, exists, deleting, deleteCalls) ==
    [type |-> type, exists |-> exists, deleting |-> deleting, deleteCalls |-> deleteCalls]

\* a Delete call: its position ("start", "checked" after a Read that found
\* the target, "done"), what its Read returned, whether it called the delete
\* endpoint, whether the provider told it that the target does not exist
\* (notFound), and what it returned
DeleteCall(pc, read, called, notFound, ret) ==
    [pc |-> pc, read |-> read, called |-> called, notFound |-> notFound, ret |-> ret]

\* the answer of the provider's Get call for the target
AnswerGet(transport) ==
    IF transport THEN [err |-> TransportErr]
    ELSE IF cloud.exists THEN [err |-> NilErr]
    ELSE [err |-> NotFoundErr]

\* the existence check of a Delete call: the operator's Read.  A Read that
\* fails or reports NotFound ends the call.
DelCheck(p) ==
    /\ del[p].pc = "start"
    /\ DeleteStyle(cloud.type) # "direct"
    /\ \E transport \in BOOLEAN :
          LET resp == AnswerGet(transport)
              read == VCNRead(NilErr, resp)
              found == read.err = NilErr /\ Deref(read.res).ErrorCode = ""
          IN  del' = [del EXCEPT ![p] =
                        IF found
                        THEN DeleteCall("checked", read, FALSE, FALSE, NoCall)
                        ELSE DeleteCall("done", read, FALSE, resp.err = NotFoundErr,
                                 PluginDeleteRet(cloud.type, TargetID,
                                     OperatorDelete(cloud.type, read, [err |-> NilErr],
                                                    TargetID)))]
    /\ UNCHANGED <<raw, eh, plg, wrs, poll, seen, opc, cloud, apd, reg, cli, tags, nsg, upd>>

\* the answers of the provider's delete endpoint: a transport failure; for
\* a target that does not exist, 404; for one being deleted already,
\* acceptance or 409; otherwise acceptance
DeleteAnswers ==
    {[err |-> TransportErr]}
        \cup (IF ~cloud.exists THEN {[err |-> NotFoundErr]}
              ELSE IF cloud.deleting THEN {[err |-> NilErr], [err |-> ConflictErr]}
              ELSE {[err |-> NilErr]})

\* the call of the delete endpoint, and the return of the Delete call
DelCall(p) ==
    /\ \/ del[p].pc = "checked"
       \/ del[p].pc = "start" /\ DeleteStyle(cloud.type) = "direct"
    /\ \E resp \in DeleteAnswers :
          /\ cloud' = [cloud EXCEPT
                          !.deleteCalls = @ + 1,
                          !.exists = IF resp.err = NilErr
                                        /\ DeleteStyle(cloud.type) \in {"sync", "direct"}
                                     THEN FALSE ELSE @,
                          !.deleting = IF resp.err = NilErr
                                          /\ DeleteStyle(cloud.type) \in {"workRequest", "instance"}
                                       THEN TRUE ELSE @]
          /\ del' = [del EXCEPT ![p] =
                        DeleteCall("done", del[p].read, TRUE, resp.err = NotFoundErr,
                            PluginDeleteRet(cloud.type, TargetID,
                                OperatorDelete(cloud.type, del[p].read, resp, TargetID)))]
    /\ UNCHANGED <<raw, eh, plg, wrs, poll, seen, opc, apd, reg, cli, tags, nsg, upd>>

\* the provider ends a deletion that is under way
ProviderRemoves ==
    /\ cloud.exists /\ cloud.deleting
    /\ cloud' = [cloud EXCEPT !.exists = FALSE, !.deleting = FALSE]
    /\ UNCHANGED <<raw, eh, plg, wrs, poll, seen, opc, del, apd, reg, cli, tags, nsg, upd>>

InitDelete ==
    /\ raw = RawIdle
    /\ eh = EhIdle
    /\ plg = PlgIdle
    /\ wrs = <<>>
    /\ poll = PollIdle
    /\ seen = <<>>
    /\ opc = <<>>
    /\ \E t \in RegisteredTypes, e \in BOOLEAN : cloud = Cloud(t, e, FALSE, 0)
    /\ del = [p \in Callers |-> DeleteCall("start", NoCall, FALSE, FALSE, NoCall)]
    /\ apd = <<>>
    /\ reg = <<>>
    /\ cli = <<>>
    /\ tags = <<>>
    /\ nsg = <<>>
    /\ upd = <<>>

NextDelete ==
    \/ \E p \in Callers : DelCheck(p)
    \/ \E p \in Callers : DelCall(p)
    \/ ProviderRemoves

SpecDelete == InitDelete /\ [][NextDelete]_vars

\* the Delete call returned Success for the target and no error
DelSucceeded(p) ==
    /\ del[p].ret.err = NilErr
    /\ del[p].ret.res # NilPtr
    /\ Deref(del[p].ret.res).OperationStatus = OperationStatusSuccess
    /\ Deref(del[p].ret.res).NativeID = TargetID

\* the existence check says that the target is not there: the Read of the
\* call reported NotFound or, for an operator that does not read, the
\* provider has no such target when the call is made
DelReadNotFound(p) ==
    IF DeleteStyle(cloud.type) = "direct"
    THEN del[p].notFound
    ELSE del[p].read.res # NilPtr
            /\ Deref(del[p].read.res).ErrorCode = OperationErrorCodeNotFound

\* C16 as claimed: for every registered type, a Delete of a native id for
\* which Read reports NotFound returns Success with that NativeID and a nil
\* error, and the delete endpoint is not called during that Delete.
C16_AbsentDeleteSkipsEndpoint_Original ==
    \A p \in Callers :
        (del[p].pc = "done" /\ DelReadNotFound(p)) => (DelSucceeded(p) /\ ~del[p].called)

\* C17 as claimed: whatever the interleaving of two Delete calls for the
\* same native id, a call to which the provider reports that the target
\* does not exist (to its Read or to its delete call) returns Success, never
\* a Failure result or an error.
C17_DeleteIdempotent_Original ==
    \A p \in Callers : (del[p].pc = "done" /\ del[p].notFound) => DelSucceeded(p)

\* ---------------------------------------------------------------------
\* Partial updates: ApplyPatchDocument (pkg/util/patch.go)
\* ---------------------------------------------------------------------

\* the longest patch document of the model, in operations
MaxOps == 1

Fields == {"a", "b"}

Values == {"v1", "v2"}

\* a decoded JSON object of the model: a map from some fields to values
PropertyMaps == UNION {[S -> Values] : S \in SUBSET Fields}

\* JSON texts ([]byte, json.RawMessage): an object with its members, the
\* text null, the empty text and a text that is no JSON
JsonObject(fields) == [kind |-> "object", fields |-> fields]

JsonNull == [kind |-> "null", fields |-> <<>>]

JsonEmpty == [kind |-> "empty", fields |-> <<>>]

JsonMalformed == [kind |-> "malformed", fields |-> <<>>]

\* json.Unmarshal(data, &props) with props a map[string]any: an object gives
\* its map, null leaves the map nil, every other text is an error
Unmarshal(data) ==
    CASE data.kind = "object" -> Ret(Ptr(data.fields), NilErr)
      [] data.kind = "null" -> Ret(NilPtr, NilErr)
      [] data.kind = "empty" -> Ret(NilPtr, <<PlainLayer("unexpected end of JSON input")>>)
      [] OTHER -> Ret(NilPtr, <<PlainLayer("invalid character")>>)

\* one operation of a JSON patch (RFC 6902) on a member of the object
Operation(op, path, value) == [op |-> op, path |-> path, value |-> value]

Operations ==
    {Operation(o, f, v) : o \in {"add", "replace", "test"}, f \in Fields, v \in Values}
        \cup {Operation("remove", f, "") : f \in Fields}

\* the text of a patch document (*request.PatchDocument): the empty string,
\* a JSON array of operations, or a text that is no patch
PatchEmptyString == [kind |-> "empty", ops |-> <<>>]

PatchOf(ops) == [kind |-> "ops", ops |-> ops]

PatchMalformed == [kind |-> "malformed", ops |-> <<>>]

PatchTexts == {PatchEmptyString, PatchMalformed} \cup {PatchOf(o) : o \in SeqsUpTo(Operations, MaxOps)}

\* jsonpatch.DecodePatch: the operations of a JSON array, an error otherwise
DecodePatch(text) ==
    IF text.kind = "ops"
    THEN [patch |-> text.ops, err |-> NilErr]
    ELSE [patch |-> <<>>, err |-> <<PlainLayer("invalid JSON Document")>>]

\* the map with member f set to v
With(fields, f, v) == [g \in (DOMAIN fields) \cup {f} |-> IF g = f THEN v ELSE fields[g]]

\* the map without member f
Without(fields, f) == [g \in (DOMAIN fields) \ {f} |-> fields[g]]

\* one operation applied to an object: add sets the member, replace and
\* remove need the member to be there, test needs it to hold the value
applyOperation(fields, o) ==
    CASE o.op = "add" -> [ok |-> TRUE, fields |-> With(fields, o.path, o.value)]
      [] o.op = "replace" ->
            IF o.path \in DOMAIN fields
            THEN [ok |-> TRUE, fields |-> With(fields, o.path, o.value)]
            ELSE [ok |-> FALSE, fields |-> fields]
      [] o.op = "remove" ->
            IF o.path \in DOMAIN fields
            THEN [ok |-> TRUE, fields |-> Without(fields, o.path)]
            ELSE [ok |-> FALSE, fields |-> fields]
      [] OTHER ->
            [ok |-> o.path \in DOMAIN fields /\ fields[o.path] = o.value, fields |-> fields]

\* the operations applied in order, stopping at the first that fails
RECURSIVE applyOperations(_, _)
applyOperations(fields, ops) ==
    IF ops = <<>>
    THEN [ok |-> TRUE, fields |-> fields]
    ELSE LET r == applyOperation(fields, Head(ops))
         IN IF r.ok THEN applyOperations(r.fields, Tail(ops)) ELSE r

\* patch.Apply(doc): an empty text is returned as it is, an object is
\* decoded, patched and encoded again, every other text is an error
Apply(patch, doc) ==
    CASE doc.kind = "empty" -> [doc |-> doc, err |-> NilErr]
      [] doc.kind = "object" ->
            LET r == applyOperations(doc.fields, patch)
            IN IF r.ok
               THEN [doc |-> JsonObject(r.fields), err |-> NilErr]
               ELSE [doc |-> JsonEmpty, err |-> <<PlainLayer("operation does not apply")>>]
      [] OTHER -> [doc |-> JsonEmpty, err |-> <<PlainLayer("invalid state detected")>>]

UpdateRequest(nativeID, resourceType, targetConfig, desired, patchDocument) == [NativeID |-> nativeID, ResourceType |-> resourceType, TargetConfig |-> targetConfig, DesiredProperties |-> desired, PatchDocument |-> patchDocument]

ReadRequest(nativeID, resourceType, targetConfig) == [NativeID |-> nativeID, ResourceType |-> resourceType, TargetConfig |-> targetConfig]

\* what a call of ApplyPatchDocument leaves: what it returns, the calls of
\* readFunc it made, and the caller's request after it
Applied(ret, reads, request) == [ret |-> ret, reads |-> reads, request |-> request]

\* the request has no patch document: the pointer is nil or the text empty
NoPatchDocument(request) ==
    request.PatchDocument = NilPtr \/ Deref(request.PatchDocument) = PatchEmptyString

\* the part of ApplyPatchDocument after a read that returned no error
PatchSnapshot(request, readReq, readResult) ==
    LET existingJSON == Deref(readResult).Properties
        decoded == DecodePatch(Deref(request.PatchDocument))
        patched == Apply(decoded.patch, existingJSON)
        merged == Unmarshal(patched.doc)
    IN  IF decoded.err # NilErr
        THEN Applied(Ret(NilPtr, Errorf("failed to decode patch document", decoded.err)), <<readReq>>, request)
        ELSE IF patched.err # NilErr
        THEN Applied(Ret(NilPtr, Errorf("failed to apply patch", patched.err)), <<readReq>>, request)
        ELSE IF merged.err # NilErr
        THEN Applied(Ret(NilPtr, Errorf("failed to parse merged properties", merged.err)), <<readReq>>, request)
        ELSE Applied(Ret(merged.res, NilErr), <<readReq>>, request)

\* the branch of ApplyPatchDocument for a request without patch document
ParseDesired(request) ==
    LET props == Unmarshal(request.DesiredProperties)
    IN  IF props.err # NilErr
        THEN Applied(Ret(NilPtr, Errorf("failed to parse properties", props.err)), <<>>, request)
        ELSE Applied(Ret(props.res, NilErr), <<>>, request)

\* ApplyPatchDocument patching the request's desired properties instead of
\* the snapshot it read
ApplyPatchDocumentOnDesired(request, readFunc) ==
    IF NoPatchDocument(request)
    THEN ParseDesired(request)
    ELSE LET readReq == ReadRequest(request.NativeID, request.ResourceType, request.TargetConfig)
             read == readFunc[readReq]
         IN  IF read.err # NilErr
             THEN Applied(Ret(NilPtr, Errorf("failed to read existing resource", read.err)), <<readReq>>, request)
             ELSE PatchSnapshot(request, readReq, Ptr(ReadResult(request.ResourceType, request.DesiredProperties, OperationErrorCodeNotSet)))

\* ApplyPatchDocument keeping the snapshot of its previous call
ApplyPatchDocumentCached(request, readFunc) ==
    IF NoPatchDocument(request)
    THEN ParseDesired(request)
    ELSE LET readReq == ReadRequest(request.NativeID, request.ResourceType, request.TargetConfig)
             cached == apd.done /\ apd.snap.err = NilErr
             read == IF cached THEN apd.snap ELSE readFunc[readReq]
         IN  IF read.err # NilErr
             THEN Applied(Ret(NilPtr, Errorf("failed to read existing resource", read.err)), <<readReq>>, request)
             ELSE LET a == PatchSnapshot(request, readReq, read.res)
                  IN Applied(a.ret, IF cached THEN <<>> ELSE <<readReq>>, request)

\* ApplyPatchDocument falling back to the desired properties when the read
\* fails
ApplyPatchDocumentIgnoresReadError(request, readFunc) ==
    IF NoPatchDocument(request)
    THEN ParseDesired(request)
    ELSE LET readReq == ReadRequest(request.NativeID, request.ResourceType, request.TargetConfig)
             read == readFunc[readReq]
         IN  IF read.err # NilErr
             THEN Applied(ParseDesired(request).ret, <<readReq>>, request)
             ELSE PatchSnapshot(request, readReq, read.res)

\* ApplyPatchDocument(ctx, request, readFunc)
ApplyPatchDocument(request, readFunc) ==
    IF NoPatchDocument(request)
    THEN ParseDesired(request)
    ELSE LET readReq == ReadRequest(request.NativeID, request.ResourceType, request.TargetConfig)
             read == readFunc[readReq]
         IN  IF read.err # NilErr
             THEN Applied(Ret(NilPtr, Errorf("failed to read existing resource", read.err)), <<readReq>>, request)
             ELSE PatchSnapshot(request, readReq, read.res)

\* the native ids of the model: the target the provider may hold and an id
\* the provider never holds
OtherID == "ocid2"

NativeIDs == {TargetID, OtherID}

VCNType == "OCI::Core::VCN"

\* the provider's side of a partial update: whether the target exists and
\* its current properties
Held(exists, props) == [exists |-> exists, props |-> props]

HeldStates == {Held(FALSE, <<>>)} \cup {Held(TRUE, m) : m \in PropertyMaps}

\* the operator's Read against the provider's current state, as the
\* readFunc of ApplyPatchDocument: an error when the call does not get
\* through, a NotFound result without properties when the provider has no
\* such resource, the encoded properties otherwise
ReadFunc(held, transport) ==
    [rq \in {ReadRequest(n, VCNType, "cfg") : n \in NativeIDs} |->
        IF transport
        THEN Ret(NilPtr, Errorf("failed to read VCN", TransportErr))
        ELSE IF held.exists /\ rq.NativeID = TargetID
        THEN Ret(Ptr(ReadResult(VCNType, JsonObject(held.props), OperationErrorCodeNotSet)), NilErr)
        ELSE Ret(Ptr(ReadResult(VCNType, JsonEmpty, OperationErrorCodeNotFound)), NilErr)]

DesiredTexts == {JsonObject([f \in {"a"} |-> "v2"]), JsonNull, JsonMalformed}

UpdateRequests ==
    {UpdateRequest(n, VCNType, "cfg", d, pd) :
        n \in NativeIDs, d \in DesiredTexts, pd \in {NilPtr} \cup {Ptr(t) : t \in PatchTexts}}

\* the calls of ApplyPatchDocument for one request: whether one was made,
\* whether more than one was, the request, what the provider answers to a
\* read for that request at the time of the last call, and what that call
\* left
PatchCall(done, again, request, snap, out) == [done |-> done, again |-> again, request |-> request, snap |-> snap, out |-> out]

\* the request of the behaviour before its first call
ApdPending(request) == PatchCall(FALSE, FALSE, request, NoCall, Applied(NoCall, <<>>, request))

\* an Update reaches ApplyPatchDocument with p.Read as readFunc
ApdUpdate ==
    /\ \E transport \in BOOLEAN :
            LET request == apd.request
                readFunc == ReadFunc(cloud, transport)
                readReq == ReadRequest(request.NativeID, request.ResourceType, request.TargetConfig)
            IN  apd' = PatchCall(TRUE, apd.done, request, readFunc[readReq], ApplyPatchDocument(request, readFunc))
    /\ UNCHANGED <<raw, eh, plg, wrs, poll, seen, opc, cloud, del, reg, cli, tags, nsg, upd>>

\* the provider's resource changes or goes away between two updates
ProviderChanges ==
    /\ \E h \in HeldStates : h # cloud /\ cloud' = h
    /\ UNCHANGED <<raw, eh, plg, wrs, poll, seen, opc, del, apd, reg, cli, tags, nsg, upd>>

InitPatch ==
    /\ raw = RawIdle
    /\ eh = EhIdle
    /\ plg = PlgIdle
    /\ wrs = <<>>
    /\ poll = PollIdle
    /\ seen = <<>>
    /\ opc = <<>>
    /\ cloud \in HeldStates
    /\ del = <<>>
    /\ \E request \in UpdateRequests : apd = ApdPending(request)
    /\ reg = <<>>
    /\ cli = <<>>
    /\ tags = <<>>
    /\ nsg = <<>>
    /\ upd = <<>>

NextPatch ==
    \/ ApdUpdate
    \/ ProviderChanges

SpecPatch == InitPatch /\ [][NextPatch]_vars

\* the last call had a patch document to apply and returned a result
ApdPatched ==
    /\ apd.done
    /\ ~NoPatchDocument(apd.request)
    /\ apd.out.ret.err = NilErr
    /\ apd.out.ret.res # NilPtr

\* the members the operations write: every path of an operation but test
Touched(ops) == {ops[i].path : i \in {j \in 1..Len(ops) : ops[j].op # "test"}}

\* the last operation that writes member f
LastOn(ops, f) ==
    ops[CHOOSE i \in 1..Len(ops) :
            /\ ops[i].path = f /\ ops[i].op # "test"
            /\ \A j \in (i + 1)..Len(ops) : ops[j].path # f \/ ops[j].op = "test"]

\* C18: the result of ApplyPatchDocument is the snapshot read by readFunc
\* changed only where the patch says: with a patch document of no operations
\* the result is the snapshot as it was read, a member the patch sets (add or
\* replace) holds the value set, and every member the patch does not write is
\* in the result exactly as it is in the snapshot.
C18_PatchChangesOnlyWhatItSays ==
    ApdPatched =>
        /\ apd.snap.err = NilErr
        /\ apd.snap.res # NilPtr
        /\ Deref(apd.snap.res).Properties.kind = "object"
        /\ LET result == Deref(apd.out.ret.res)
               snapshot == Deref(apd.snap.res).Properties.fields
               ops == Deref(apd.request.PatchDocument).ops
           IN  /\ ops = <<>> => result = snapshot
               /\ \A f \in Fields \ Touched(ops) :
                    /\ f \in DOMAIN result <=> f \in DOMAIN snapshot
                    /\ f \in DOMAIN snapshot => result[f] = snapshot[f]
               /\ \A f \in Touched(ops) :
                    LastOn(ops, f).op \in {"add", "replace"} =>
                        f \in DOMAIN result /\ result[f] = LastOn(ops, f).value

\* a patch that sets a member to a new value was applied to a snapshot with
\* another member, and the result differs from the desired properties
C18_Witness ==
    /\ ApdPatched
    /\ apd.snap.res # NilPtr
    /\ LET result == Deref(apd.out.ret.res)
           snapshot == Deref(apd.snap.res).Properties.fields
           ops == Deref(apd.request.PatchDocument).ops
       IN  /\ Len(ops) = 1
           /\ ops[1].op = "replace"
           /\ ops[1].path = "a"
           /\ snapshot # result
           /\ "b" \in DOMAIN snapshot
           /\ "b" \in DOMAIN result
           /\ result # apd.request.DesiredProperties.fields

\* the read request ApplyPatchDocument is to build from its request
ApdReadReq ==
    ReadRequest(apd.request.NativeID, apd.request.ResourceType, apd.request.TargetConfig)

\* C19: ApplyPatchDocument calls readFunc if and only if the request carries
\* a patch document. Without one it makes no read and returns the parsed
\* DesiredProperties; with one it calls readFunc exactly once, for the
\* request's NativeID, ResourceType and TargetConfig, and what it returns is
\* the patch applied to the answer of that very call, whatever an earlier
\* call read. In both cases the request is left as it was.
C19_ReadsIffPatchDocument ==
    apd.done =>
        /\ apd.out.request = apd.request
        /\ IF apd.request.PatchDocument = NilPtr \/ Deref(apd.request.PatchDocument).kind = "empty"
           THEN /\ apd.out.reads = <<>>
                /\ apd.request.DesiredProperties.kind = "object" =>
                        apd.out.ret = Ret(Ptr(apd.request.DesiredProperties.fields), NilErr)
           ELSE /\ apd.out.reads = <<ApdReadReq>>
                /\ apd.snap.err = NilErr =>
                        apd.out.ret = PatchSnapshot(apd.request, ApdReadReq, apd.snap.res).ret

\* a second call for the same request, after the provider's resource may
\* have changed, read once and returned the patched snapshot of that read
C19_Witness ==
    /\ apd.done
    /\ apd.again
    /\ apd.request.PatchDocument # NilPtr
    /\ Deref(apd.request.PatchDocument).kind = "ops"
    /\ apd.out.reads = <<ApdReadReq>>
    /\ apd.out.ret.err = NilErr
    /\ apd.out.ret.res # NilPtr
    /\ apd.out.request = apd.request

\* the text of the outermost layer of the error the last call returned
ApdErrorKind ==
    IF apd.out.ret.err = NilErr THEN "" ELSE Head(apd.out.ret.err).text

\* the last call had a patch document to apply
ApdHasPatch == apd.done /\ ~NoPatchDocument(apd.request)

\* the read of the last call returned a result with these properties
ApdSnapshotIs(kind) ==
    /\ apd.snap.err = NilErr
    /\ apd.snap.res # NilPtr
    /\ Deref(apd.snap.res).Properties.kind = kind

\* C20: every failure of ApplyPatchDocument is an error without result, and
\* the error names its cause: DesiredProperties that do not parse, a failed
\* read (whose error it wraps), a patch document that does not decode, a
\* patch that does not apply, patched JSON that does not parse. The read
\* failure is reported if and only if readFunc returned an error.
C20_FailuresAreDistinctErrors ==
    apd.done =>
        /\ apd.out.ret.err # NilErr => apd.out.ret.res = NilPtr
        /\ (~ApdHasPatch /\ apd.request.DesiredProperties.kind \notin {"object", "null"}) =>
                /\ ApdErrorKind = "failed to parse properties"
                /\ Unwrap(apd.out.ret.err) # NilErr
        /\ (ApdHasPatch /\ apd.snap.err # NilErr) =>
                /\ ApdErrorKind = "failed to read existing resource"
                /\ Unwrap(apd.out.ret.err) = apd.snap.err
        /\ ApdErrorKind = "failed to read existing resource" =>
                ApdHasPatch /\ apd.snap.err # NilErr
        /\ (ApdHasPatch /\ apd.snap.err = NilErr) =>
                LET text == Deref(apd.request.PatchDocument)
                IN  /\ text.kind = "malformed" => ApdErrorKind = "failed to decode patch document"
                    /\ (text.kind = "ops" /\ ApdSnapshotIs("object")
                            /\ ~applyOperations(Deref(apd.snap.res).Properties.fields, text.ops).ok) =>
                                ApdErrorKind = "failed to apply patch"
                    /\ (text.kind = "ops" /\ ApdSnapshotIs("empty")) =>
                                ApdErrorKind = "failed to parse merged properties"
                    /\ (text.kind = "ops" /\ ApdSnapshotIs("object")
                            /\ applyOperations(Deref(apd.snap.res).Properties.fields, text.ops).ok) =>
                                ApdErrorKind = ""

\* a call whose read failed although its desired properties parse: it
\* returned the read's error, wrapped, and no result
C20_Witness ==
    /\ ApdHasPatch
    /\ apd.snap.err # NilErr
    /\ apd.request.DesiredProperties.kind = "object"
    /\ apd.out.ret.res = NilPtr
    /\ ApdErrorKind = "failed to read existing resource"
    /\ Unwrap(apd.out.ret.err) = apd.snap.err

\* ---------------------------------------------------------------------
\* The registry of operators (pkg/provisioner/registry.go)
\* ---------------------------------------------------------------------

\* the most Register calls of a behaviour
MaxRegs == 3

RegTypes == {"OCI::Core::VCN", "OCI::Core::Subnet"}

Factories == {"NewVCNProvisioner", "NewSubnetProvisioner"}

\* Register storing an entry without its factory
RegisterPartial(provisioners, resourceType, factory) ==
    [t \in (DOMAIN provisioners) \cup {resourceType} |->
        IF t = resourceType THEN "" ELSE provisioners[t]]

\* Register keeping the factory a type already has
RegisterFirstWins(provisioners, resourceType, factory) ==
    [t \in (DOMAIN provisioners) \cup {resourceType} |->
        IF t \in DOMAIN provisioners THEN provisioners[t] ELSE factory]

\* Register: provisioners[resourceType] = factory
Register(provisioners, resourceType, factory) ==
    [t \in (DOMAIN provisioners) \cup {resourceType} |->
        IF t = resourceType THEN factory ELSE provisioners[t]]

\* the operator a factory builds for a Clients bundle
Built(factory, clients) == [factory |-> factory, clients |-> clients]

\* &readAfterWrite{inner: inner}
Decorated(inner) == Ptr([decorator |-> "readAfterWrite", inner |-> inner])

\* the map lookup of Get: factory, ok := provisioners[resourceType]
Lookup(provisioners, resourceType) ==
    IF resourceType \in DOMAIN provisioners
    THEN [factory |-> provisioners[resourceType], ok |-> TRUE]
    ELSE [factory |-> "", ok |-> FALSE]

\* the rest of Get: nil without entry, else the factory's operator inside
\* the decorator
GetProvisioner(found, clients) ==
    IF ~found.ok THEN NilPtr ELSE Decorated(Built(found.factory, clients))

\* a call of Get: where it is, the type it asks for, what its lookup found
\* and what it returned
GetCall(pc, resourceType, found, res) == [pc |-> pc, resourceType |-> resourceType, found |-> found, res |-> res]

\* the registry: the table, the Register calls made so far (type and
\* factory, in order), whether the init functions are still running, and
\* the Get calls of the plugin's entry points
Registry(provisioners, regs, phase, gets) == [provisioners |-> provisioners, regs |-> regs, phase |-> phase, gets |-> gets]

\* an init function registers a factory
RegRegister ==
    /\ reg.phase = "init"
    /\ Len(reg.regs) < MaxRegs
    /\ \E t \in RegTypes, f \in Factories :
            reg' = [reg EXCEPT !.provisioners = Register(reg.provisioners, t, f),
                               !.regs = Append(reg.regs, <<t, f>>)]
    /\ UNCHANGED <<raw, eh, plg, wrs, poll, seen, opc, cloud, del, apd, cli, tags, nsg, upd>>

\* the init functions are over and the plugin starts to serve
RegServe ==
    /\ reg.phase = "init"
    /\ reg' = [reg EXCEPT !.phase = "serve"]
    /\ UNCHANGED <<raw, eh, plg, wrs, poll, seen, opc, cloud, del, apd, cli, tags, nsg, upd>>

\* an entry point of the plugin enters Get and starts to read the table
RegGetEnter(p) ==
    /\ reg.phase = "serve"
    /\ reg.gets[p].pc = "idle"
    /\ \E t \in RegTypes :
            reg' = [reg EXCEPT !.gets[p] = GetCall("reading", t, Lookup(<<>>, t), NilPtr)]
    /\ UNCHANGED <<raw, eh, plg, wrs, poll, seen, opc, cloud, del, apd, cli, tags, nsg, upd>>

\* the map lookup of the call completes
RegGetLookup(p) ==
    /\ reg.gets[p].pc = "reading"
    /\ reg' = [reg EXCEPT !.gets[p].pc = "found",
                          !.gets[p].found = Lookup(reg.provisioners, reg.gets[p].resourceType)]
    /\ UNCHANGED <<raw, eh, plg, wrs, poll, seen, opc, cloud, del, apd, cli, tags, nsg, upd>>

\* Get returns
RegGetReturn(p) ==
    /\ reg.gets[p].pc = "found"
    /\ reg' = [reg EXCEPT !.gets[p].pc = "done",
                          !.gets[p].res = GetProvisioner(reg.gets[p].found, "clients")]
    /\ UNCHANGED <<raw, eh, plg, wrs, poll, seen, opc, cloud, del, apd, cli, tags, nsg, upd>>

InitRegistry ==
    /\ raw = RawIdle
    /\ eh = EhIdle
    /\ plg = PlgIdle
    /\ wrs = <<>>
    /\ poll = PollIdle
    /\ seen = <<>>
    /\ opc = <<>>
    /\ cloud = <<>>
    /\ del = <<>>
    /\ apd = <<>>
    /\ reg = Registry(<<>>, <<>>, "init", [p \in Callers |-> GetCall("idle", "", Lookup(<<>>, ""), NilPtr)])
    /\ cli = <<>>
    /\ tags = <<>>
    /\ nsg = <<>>
    /\ upd = <<>>

NextRegistry ==
    \/ RegRegister
    \/ RegServe
    \/ \E p \in Callers : RegGetEnter(p)
    \/ \E p \in Callers : RegGetLookup(p)
    \/ \E p \in Callers : RegGetReturn(p)

SpecRegistry == InitRegistry /\ [][NextRegistry]_vars

\* the Register calls so far that named the type
RegsOf(t) == {i \in 1..Len(reg.regs) : reg.regs[i][1] = t}

\* the factory of the last Register call that named the type
LastFactory(t) ==
    reg.regs[CHOOSE i \in RegsOf(t) : \A j \in RegsOf(t) : j <= i][2]

\* C21: Get returns nil if and only if no Register call named the type;
\* otherwise it returns a read-after-write decorator around the operator
\* built by the factory of the last Register call for the type; and a
\* Register call for one type leaves the entry of every other type as it
\* was.
C21_LastRegistrationWins ==
    /\ [](\A p \in Callers :
            reg.gets[p].pc = "done" =>
                LET t == reg.gets[p].resourceType
                IN  /\ reg.gets[p].res = NilPtr <=> RegsOf(t) = {}
                    /\ RegsOf(t) # {} =>
                        reg.gets[p].res = Decorated(Built(LastFactory(t), "clients")))
    /\ [][\A t \in RegTypes :
            (Len(reg'.regs) > Len(reg.regs) /\ reg'.regs[Len(reg'.regs)][1] # t) =>
                Lookup(reg'.provisioners, t) = Lookup(reg.provisioners, t)]_vars

\* a type was registered twice with different factories, the other type
\* was registered too, and a Get of the first type has returned
C21_Witness ==
    \E p \in Callers :
        /\ reg.gets[p].pc = "done"
        /\ reg.gets[p].res # NilPtr
        /\ Cardinality(RegsOf(reg.gets[p].resourceType)) = 2
        /\ \E i, j \in RegsOf(reg.gets[p].resourceType) : reg.regs[i][2] # reg.regs[j][2]
        /\ \E t \in RegTypes : t # reg.gets[p].resourceType /\ RegsOf(t) # {}

\* C22 as claimed: accesses to the registry's table are mutually exclusive,
\* and a Get observes for its type either no entry or one completely
\* registered factory.
C22_TableAccessExclusive_Original ==
    /\ \A p, q \in Callers :
            (reg.gets[p].pc = "reading" /\ reg.gets[q].pc = "reading") => p = q
    /\ \A p \in Callers :
            (reg.gets[p].pc \in {"found", "done"} /\ reg.gets[p].found.ok) =>
                \E i \in RegsOf(reg.gets[p].resourceType) :
                    reg.regs[i][2] = reg.gets[p].found.factory

\* C22 as amended: the table is written only while the init functions run,
\* before any Get, and never while a Get reads it; Get calls read it
\* without excluding each other, and each observes for its type either no
\* entry or one completely registered factory.
C22_NoWriteWhileRead ==
    /\ [](\A p \in Callers :
            /\ reg.gets[p].pc # "idle" => reg.phase = "serve"
            /\ (reg.gets[p].pc \in {"found", "done"} /\ reg.gets[p].found.ok) =>
                    \E i \in RegsOf(reg.gets[p].resourceType) :
                        reg.regs[i][2] = reg.gets[p].found.factory
            /\ (reg.gets[p].pc \in {"found", "done"} /\ ~reg.gets[p].found.ok) =>
                    RegsOf(reg.gets[p].resourceType) = {})
    /\ [][(reg.phase = "serve" \/ \E p \in Callers : reg.gets[p].pc # "idle") =>
                reg'.provisioners = reg.provisioners]_vars

\* two Get calls read the table at the same time, after registrations, and
\* the table has an entry for the type one of them asks for
C22_Witness ==
    /\ \A p \in Callers : reg.gets[p].pc = "reading"
    /\ \E p \in Callers : RegsOf(reg.gets[p].resourceType) # {}
    /\ Len(reg.regs) >= 2

\* ---------------------------------------------------------------------
\* The lazily built SDK clients (pkg/client/clients.go)
\* ---------------------------------------------------------------------

\* the most constructor calls of a behaviour for one service family
MaxBuilds == 3

Getters == {1, 2, 3}

Families == {"virtualNetwork", "identity"}

\* the mutex mu: 0 when free, else the getter call that holds it
Unlocked == 0

\* c.mu.Lock() returning although another call holds the mutex
LockUnguarded(mu) == TRUE

\* c.mu.Lock() can return: no call holds the mutex
Lockable(mu) == mu = Unlocked

\* a getter call: where it is, the family it asks for and what it returned
GetterCall(pc, family, ret) == [pc |-> pc, family |-> family, ret |-> ret]

\* a Clients bundle: the mutex, the cached handle of each family, how often
\* the constructor of each family was called and how often it succeeded,
\* and the getter calls
Clients(mu, handles, calls, built, getters) == [mu |-> mu, handles |-> handles, calls |-> calls, built |-> built, getters |-> getters]

\* a getter is called and takes the mutex
CliLock(p) ==
    /\ cli.getters[p].pc \in {"idle", "done"}
    /\ Lockable(cli.mu)
    /\ \E f \in Families :
            cli' = [cli EXCEPT !.mu = p, !.getters[p] = GetterCall("locked", f, NoCall)]
    /\ UNCHANGED <<raw, eh, plg, wrs, poll, seen, opc, cloud, del, apd, reg, tags, nsg, upd>>

\* the call finds a cached handle, returns it and releases the mutex
CliCached(p) ==
    /\ cli.getters[p].pc = "locked"
    /\ cli.handles[cli.getters[p].family] # NilPtr
    /\ cli' = [cli EXCEPT !.mu = Unlocked,
                          !.getters[p].pc = "done",
                          !.getters[p].ret = Ret(cli.handles[cli.getters[p].family], NilErr)]
    /\ UNCHANGED <<raw, eh, plg, wrs, poll, seen, opc, cloud, del, apd, reg, tags, nsg, upd>>

\* the call finds no handle and starts the SDK constructor
CliCheck(p) ==
    /\ cli.getters[p].pc = "locked"
    /\ cli.handles[cli.getters[p].family] = NilPtr
    /\ cli.calls[cli.getters[p].family] < MaxBuilds
    /\ cli' = [cli EXCEPT !.getters[p].pc = "construct",
                          !.calls[cli.getters[p].family] = @ + 1]
    /\ UNCHANGED <<raw, eh, plg, wrs, poll, seen, opc, cloud, del, apd, reg, tags, nsg, upd>>

\* the constructor fails: the call returns its error and releases the mutex
CliConstructFails(p) ==
    /\ cli.getters[p].pc = "construct"
    /\ cli' = [cli EXCEPT !.mu = Unlocked,
                          !.getters[p].pc = "done",
                          !.getters[p].ret = Ret(NilPtr, <<PlainLayer("can not create client")>>)]
    /\ UNCHANGED <<raw, eh, plg, wrs, poll, seen, opc, cloud, del, apd, reg, tags, nsg, upd>>

\* the constructor succeeds: the call stores the new handle, returns it and
\* releases the mutex
CliConstruct(p) ==
    /\ cli.getters[p].pc = "construct"
    /\ LET f == cli.getters[p].family
           client == Ptr(<<f, cli.calls[f]>>)
       IN  cli' = [cli EXCEPT !.mu = Unlocked,
                              !.handles[f] = client,
                              !.built[f] = @ + 1,
                              !.getters[p].pc = "done",
                              !.getters[p].ret = Ret(client, NilErr)]
    /\ UNCHANGED <<raw, eh, plg, wrs, poll, seen, opc, cloud, del, apd, reg, tags, nsg, upd>>

InitClients ==
    /\ raw = RawIdle
    /\ eh = EhIdle
    /\ plg = PlgIdle
    /\ wrs = <<>>
    /\ poll = PollIdle
    /\ seen = <<>>
    /\ opc = <<>>
    /\ cloud = <<>>
    /\ del = <<>>
    /\ apd = <<>>
    /\ reg = <<>>
    /\ cli = Clients(Unlocked, [f \in Families |-> NilPtr], [f \in Families |-> 0], [f \in Families |-> 0], [p \in Getters |-> GetterCall("idle", "", NoCall)])
    /\ tags = <<>>
    /\ nsg = <<>>
    /\ upd = <<>>

NextClients ==
    \/ \E p \in Getters : CliLock(p)
    \/ \E p \in Getters : CliCached(p)
    \/ \E p \in Getters : CliCheck(p)
    \/ \E p \in Getters : CliConstructFails(p)
    \/ \E p \in Getters : CliConstruct(p)

SpecClients == InitClients /\ [][NextClients]_vars

\* the call is between taking the mutex and releasing it
CliInside(p) == cli.getters[p].pc \in {"locked", "construct"}

\* C23: for one Clients bundle and each service family, the SDK constructor
\* completes successfully at most once, every getter call that returned
\* without error returned the cached handle, and the check, construct and
\* store sequences of two calls never overlap.
C23_ClientBuiltOnce ==
    /\ \A f \in Families : cli.built[f] <= 1
    /\ \A p \in Getters :
            (cli.getters[p].pc = "done" /\ cli.getters[p].ret.err = NilErr) =>
                /\ cli.getters[p].ret.res # NilPtr
                /\ cli.getters[p].ret.res = cli.handles[cli.getters[p].family]
    /\ \A p, q \in Getters : (CliInside(p) /\ CliInside(q)) => p = q

\* after a failed first construction a second call built the handle and a
\* third call returned the same handle, while another call waits
C23_Witness ==
    \E f \in Families :
        /\ cli.calls[f] = 2
        /\ cli.built[f] = 1
        /\ \E p, q \in Getters :
            /\ p # q
            /\ cli.getters[p].pc = "done" /\ cli.getters[p].family = f
            /\ cli.getters[q].pc = "done" /\ cli.getters[q].family = f
            /\ cli.getters[p].ret.err = NilErr
            /\ cli.getters[q].ret.err = NilErr
            /\ cli.getters[p].ret.res = cli.getters[q].ret.res

\* ---------------------------------------------------------------------
\* The unwrap loop of HandleOCIServiceError, step by step, on error values
\* whose Unwrap methods may lead back to an error already visited
\* ---------------------------------------------------------------------

\* the most error values of one chain
MaxNodes == 2

\* the error values a chain is made of: a wrapper, and service errors of
\* every status the switches name, each with a provider code that would
\* decide otherwise, and of a status they do not name with every code
NodeValues ==
    {WrapLayer("ctx")}
        \cup {ServiceLayer(st, "TooManyRequests", "denied") : st \in {404, 409, 500, 502, 503, 504}}
        \cup {ServiceLayer(429, "NotAuthorizedOrNotFound", "denied")}
        \cup {ServiceLayer(400, c, "denied") :
                c \in {"NotAuthorizedOrNotFound", "TooManyRequests", "InvalidParameter"}}

\* an error given to the classifier: its values, and for each the value its
\* Unwrap method returns (0 for nil); the error itself is the first value,
\* and nil is the chain without values
ErrorGraph(nodes, unwrap) == [nodes |-> nodes, unwrap |-> unwrap]

\* a call of HandleOCIServiceError in progress: the error, the value
\* currentErr points to (0 for nil), whether it returned and what; turn is
\* the parity of the loop's iterations, so that an iteration is a step even
\* when Unwrap returns the value it was given
Walk(err, currentErr, done, class) == [fn |-> "HandleOCIServiceError", err |-> err, currentErr |-> currentErr, done |-> done, class |-> class, turn |-> 0]

\* err == nil, or the loop ended without service error: (NotSet, false)
WalkNil ==
    /\ ~eh.done
    /\ eh.currentErr = 0
    /\ eh' = [eh EXCEPT !.done = TRUE, !.class = NoClass]
    /\ UNCHANGED <<raw, plg, wrs, poll, seen, opc, cloud, del, apd, reg, cli, tags, nsg, upd>>

\* currentErr is a service error: the loop breaks and the switches decide
WalkFound ==
    /\ ~eh.done
    /\ eh.currentErr # 0
    /\ eh.err.nodes[eh.currentErr].kind = "svc"
    /\ eh' = [eh EXCEPT !.done = TRUE, !.class = Classify(eh.err.nodes[eh.currentErr])]
    /\ UNCHANGED <<raw, plg, wrs, poll, seen, opc, cloud, del, apd, reg, cli, tags, nsg, upd>>

\* currentErr is no service error: currentErr = errors.Unwrap(currentErr)
WalkUnwrap ==
    /\ ~eh.done
    /\ eh.currentErr # 0
    /\ eh.err.nodes[eh.currentErr].kind # "svc"
    /\ eh' = [eh EXCEPT !.currentErr = eh.err.unwrap[eh.currentErr], !.turn = 1 - @]
    /\ UNCHANGED <<raw, plg, wrs, poll, seen, opc, cloud, del, apd, reg, cli, tags, nsg, upd>>

InitUnwrap ==
    /\ raw = RawIdle
    /\ \E n \in 0..MaxNodes :
            \E ns \in [1..n -> NodeValues], u \in [1..n -> 0..n] :
                eh = Walk(ErrorGraph(ns, u), IF n = 0 THEN 0 ELSE 1, FALSE, NoClass)
    /\ plg = PlgIdle
    /\ wrs = <<>>
    /\ poll = PollIdle
    /\ seen = <<>>
    /\ opc = <<>>
    /\ cloud = <<>>
    /\ del = <<>>
    /\ apd = <<>>
    /\ reg = <<>>
    /\ cli = <<>>
    /\ tags = <<>>
    /\ nsg = <<>>
    /\ upd = <<>>

NextUnwrap ==
    \/ WalkNil
    \/ WalkFound
    \/ WalkUnwrap

\* a call that can take a step takes it
SpecUnwrap == InitUnwrap /\ [][NextUnwrap]_vars /\ WF_vars(NextUnwrap)

\* C24 as claimed: HandleOCIServiceError returns on every error value, also
\* on one whose unwrap relation has a cycle, and for nil it returns
\* (NotSet, false).
C24_ClassifierTerminates_Original ==
    /\ <>eh.done
    /\ [](eh.done /\ eh.err.nodes = <<>> => eh.class = NoClass)

\* the first service error met from value i on, in at most fuel unwrap
\* steps; 0 when the chain ends, or comes back, without one
RECURSIVE FirstMet(_, _, _)
FirstMet(g, i, fuel) ==
    IF i = 0 \/ fuel = 0 THEN 0
    ELSE IF g.nodes[i].kind = "svc" THEN i
    ELSE FirstMet(g, g.unwrap[i], fuel - 1)

\* C28: HandleOCIServiceError decides from the first service error met
\* while unwrapping from the outermost error, and from it alone: a status of
\* 404, 409, 429, 500, 502, 503 or 504 decides whatever the provider code
\* is; otherwise the code NotAuthorizedOrNotFound gives (NotFound, true) and
\* TooManyRequests gives (Throttling, true); otherwise, and without service
\* error, the result is (NotSet, false). The code is NotSet exactly when
\* matched is false.
C28_FirstServiceErrorDecides ==
    eh.done =>
        LET i == FirstMet(eh.err, IF eh.err.nodes = <<>> THEN 0 ELSE 1, Len(eh.err.nodes))
        IN  /\ i = 0 => eh.class = [code |-> OperationErrorCodeNotSet, ok |-> FALSE]
            /\ i # 0 =>
                LET se == eh.err.nodes[i]
                IN  IF se.status \in {404, 409, 429, 500, 502, 503, 504}
                    THEN eh.class = [code |-> ExpectedCodeOfStatus(se.status), ok |-> TRUE]
                    ELSE IF se.code = "NotAuthorizedOrNotFound"
                    THEN eh.class = [code |-> OperationErrorCodeNotFound, ok |-> TRUE]
                    ELSE IF se.code = "TooManyRequests"
                    THEN eh.class = [code |-> OperationErrorCodeThrottling, ok |-> TRUE]
                    ELSE eh.class = [code |-> OperationErrorCodeNotSet, ok |-> FALSE]
            /\ eh.class.code = OperationErrorCodeNotSet <=> ~eh.class.ok

\* behind a wrapper, a service error with status 404 and the throttling
\* code was classified as NotFound
C28_Witness ==
    /\ eh.done
    /\ Len(eh.err.nodes) = 2
    /\ eh.err.unwrap = <<2, 0>>
    /\ eh.err.nodes[1].kind = "wrap"
    /\ eh.err.nodes[2].status = 404
    /\ eh.err.nodes[2].code = "TooManyRequests"
    /\ eh.class = [code |-> OperationErrorCodeNotFound, ok |-> TRUE]

\* ---------------------------------------------------------------------
\* Ownership of results
\* ---------------------------------------------------------------------

\* C25 as claimed: a result is never modified after the operator that
\* created it has returned it: after a call through the decorator, the
\* result object the inner operator returned is as the inner operator
\* returned it.
C25_ResultNeverModified_Original ==
    raw.done => raw.innerObj = raw.inner.res

\* ---------------------------------------------------------------------
\* Tag conversions (pkg/util/util.go)
\* ---------------------------------------------------------------------

\* the strings of the model's tags, in the order of Go's < on strings
StringOrder == <<"App", "AppConfig", "Creator", "Env", "Operations">>

TagKeys == {"App", "Creator", "Env"}

TagNamespaces == {"AppConfig", "Operations"}

TagValues == {"web", "prod"}

\* a < b on strings
StringLess(a, b) ==
    \E i, j \in 1..Len(StringOrder) : StringOrder[i] = a /\ StringOrder[j] = b /\ i < j

\* the sequences that hold every element of S once: the orders in which a
\* range over a map with key set S can visit the keys
Iterations(S) ==
    {q \in [1..Cardinality(S) -> S] : \A i, j \in 1..Cardinality(S) : q[i] = q[j] => i = j}

\* a sorted sequence with one more string put in its place
RECURSIVE Insert(_, _)
Insert(sorted, x) ==
    IF sorted = <<>> THEN <<x>>
    ELSE IF StringLess(x, Head(sorted)) THEN <<x>> \o sorted
    ELSE <<Head(sorted)>> \o Insert(Tail(sorted), x)

\* the keys left in the order the map gave them
SortStringsSkipped(keys) == keys

\* sort.Strings(keys)
RECURSIVE SortStrings(_)
SortStrings(keys) ==
    IF keys = <<>> THEN <<>> ELSE Insert(SortStrings(Tail(keys)), Head(keys))

\* FreeformTagsToList(tags), the range over the map visiting the keys in
\* the order iteration; a nil slice is NilPtr
FreeformTagsToList(tagMap, iteration) ==
    IF DOMAIN tagMap = {}
    THEN NilPtr
    ELSE LET keys == SortStrings(iteration)
         IN  Ptr([i \in 1..Len(keys) |-> [Key |-> keys[i], Value |-> tagMap[keys[i]]]])

\* the entries of the namespaces from position i on, each namespace's keys
\* sorted
RECURSIVE DefinedEntries(_, _, _, _)
DefinedEntries(tagMap, namespaces, keyIteration, i) ==
    IF i > Len(namespaces) THEN <<>>
    ELSE LET ns == namespaces[i]
             keys == SortStrings(keyIteration[ns])
         IN  [j \in 1..Len(keys) |-> [Namespace |-> ns, Key |-> keys[j], Value |-> tagMap[ns][keys[j]]]]
                \o DefinedEntries(tagMap, namespaces, keyIteration, i + 1)

\* DefinedTagsToList(tags), the ranges visiting the namespaces in the order
\* nsIteration and the keys of namespace ns in the order keyIteration[ns]
DefinedTagsToList(tagMap, nsIteration, keyIteration) ==
    IF DOMAIN tagMap = {}
    THEN NilPtr
    ELSE Ptr(DefinedEntries(tagMap, SortStrings(nsIteration), keyIteration, 1))

\* the maps given to the conversions
FreeformMaps == UNION {[S -> TagValues] : S \in SUBSET TagKeys}

DefinedMaps ==
    UNION {[N -> UNION {[S -> {"prod"}] : S \in SUBSET {"App", "Env"}}] : N \in SUBSET TagNamespaces}

\* the calls of a conversion on one map: the function, the map, whether it
\* was called, whether it was called more than once, what the last call
\* returned and what the call before it returned
TagCall(fn, tagMap, done, again, ret, prev) == [fn |-> fn, tags |-> tagMap, done |-> done, again |-> again, ret |-> ret, prev |-> prev]

CallFreeformTagsToList ==
    /\ tags.fn = "FreeformTagsToList"
    /\ \E iteration \in Iterations(DOMAIN tags.tags) :
            tags' = TagCall(tags.fn, tags.tags, TRUE, tags.done,
                            FreeformTagsToList(tags.tags, iteration), tags.ret)
    /\ UNCHANGED <<raw, eh, plg, wrs, poll, seen, opc, cloud, del, apd, reg, cli, nsg, upd>>

CallDefinedTagsToList ==
    /\ tags.fn = "DefinedTagsToList"
    /\ \E nsIteration \in Iterations(DOMAIN tags.tags) :
        \E keyIteration \in [DOMAIN tags.tags -> UNION {Iterations(S) : S \in SUBSET {"App", "Env"}}] :
            /\ \A ns \in DOMAIN tags.tags : keyIteration[ns] \in Iterations(DOMAIN tags.tags[ns])
            /\ tags' = TagCall(tags.fn, tags.tags, TRUE, tags.done,
                               DefinedTagsToList(tags.tags, nsIteration, keyIteration), tags.ret)
    /\ UNCHANGED <<raw, eh, plg, wrs, poll, seen, opc, cloud, del, apd, reg, cli, nsg, upd>>

InitTags ==
    /\ raw = RawIdle
    /\ eh = EhIdle
    /\ plg = PlgIdle
    /\ wrs = <<>>
    /\ poll = PollIdle
    /\ seen = <<>>
    /\ opc = <<>>
    /\ cloud = <<>>
    /\ del = <<>>
    /\ apd = <<>>
    /\ reg = <<>>
    /\ cli = <<>>
    /\ \/ \E m \in FreeformMaps : tags = TagCall("FreeformTagsToList", m, FALSE, FALSE, NilPtr, NilPtr)
       \/ \E m \in DefinedMaps : tags = TagCall("DefinedTagsToList", m, FALSE, FALSE, NilPtr, NilPtr)
    /\ nsg = <<>>
    /\ upd = <<>>

NextTags ==
    \/ CallFreeformTagsToList
    \/ CallDefinedTagsToList

SpecTags == InitTags /\ [][NextTags]_vars

\* the (namespace, key) pairs of a map of defined tags
DefinedPairs(m) == {p \in TagNamespaces \X TagKeys : p[1] \in DOMAIN m /\ p[2] \in DOMAIN m[p[1]]}

\* C26: FreeformTagsToList and DefinedTagsToList return nil for a nil or
\* empty map and otherwise exactly one entry per key of the input (per
\* namespace and key for defined tags), with the key's value, ascending by
\* Key for freeform tags and by Namespace, then Key, for defined tags; two
\* calls on the same map return equal lists whatever order the map is
\* iterated in.
C26_TagListsSorted ==
    tags.done =>
        /\ tags.ret = NilPtr <=> DOMAIN tags.tags = {}
        /\ tags.again => tags.ret = tags.prev
        /\ tags.ret # NilPtr =>
            LET list == Deref(tags.ret)
            IN  IF tags.fn = "FreeformTagsToList"
                THEN /\ Len(list) = Cardinality(DOMAIN tags.tags)
                     /\ {list[i].Key : i \in 1..Len(list)} = DOMAIN tags.tags
                     /\ \A i \in 1..Len(list) : list[i].Value = tags.tags[list[i].Key]
                     /\ \A i, j \in 1..Len(list) : i < j => StringLess(list[i].Key, list[j].Key)
                ELSE /\ Len(list) = Cardinality(DefinedPairs(tags.tags))
                     /\ {<<list[i].Namespace, list[i].Key>> : i \in 1..Len(list)} = DefinedPairs(tags.tags)
                     /\ \A i \in 1..Len(list) : list[i].Value = tags.tags[list[i].Namespace][list[i].Key]
                     /\ \A i, j \in 1..Len(list) :
                            i < j =>
                                \/ StringLess(list[i].Namespace, list[j].Namespace)
                                \/ /\ list[i].Namespace = list[j].Namespace
                                   /\ StringLess(list[i].Key, list[j].Key)

\* a second call on a map of defined tags with two namespaces, one of them
\* with two keys, returned the three entries
C26_Witness ==
    /\ tags.done
    /\ tags.again
    /\ tags.fn = "DefinedTagsToList"
    /\ tags.ret # NilPtr
    /\ Len(Deref(tags.ret)) = 3

\* ---------------------------------------------------------------------
\* Native ids of security rules (pkg/provisioner/core/
\* networksecuritygroupsecurityrule.go).  A string is a sequence of
\* characters.
\* ---------------------------------------------------------------------

\* the identifiers the provider gives to network security groups and rules
NsgIds == {<<"n", "1">>, <<"n", "2">>}

RuleIds == {<<"r", "1">>, <<"r", "2">>}

\* the place of the first "/" of a string, 0 when it has none
FirstSlash(str) ==
    IF \E i \in 1..Len(str) : str[i] = "/"
    THEN CHOOSE i \in 1..Len(str) : str[i] = "/" /\ \A j \in 1..(i - 1) : str[j] # "/"
    ELSE 0

\* strings.SplitN(s, "/", 2)
SplitN2(str) ==
    IF FirstSlash(str) = 0
    THEN <<str>>
    ELSE <<SubSeq(str, 1, FirstSlash(str) - 1), SubSeq(str, FirstSlash(str) + 1, Len(str))>>

\* parseNativeID(nativeID): (nsgId, ruleId, err)
parseNativeID(nativeID) ==
    LET parts == SplitN2(nativeID)
    IN  IF Len(parts) # 2
        THEN [nsgId |-> <<>>, ruleId |-> <<>>, err |-> <<PlainLayer("invalid NativeID format")>>]
        ELSE [nsgId |-> parts[1], ruleId |-> parts[2], err |-> NilErr]

\* fmt.Sprintf("%s/%s", nsgId, ruleID), the NativeID of Create
CompositeID(nsgId, ruleId) == nsgId \o <<"/">> \o ruleId

\* NetworkSecurityGroupSecurityRuleProvisioner.List over the rules the
\* provider holds: the NativeIDs it returns for a security group
NetworkSecurityGroupSecurityRuleList(rules, nsgId) == {r[2] : r \in {x \in rules : x[1] = nsgId}}

\* NetworkSecurityGroupSecurityRuleProvisioner.Read over the rules the
\* provider holds
NetworkSecurityGroupSecurityRuleRead(rules, nativeID) ==
    LET parsed == parseNativeID(nativeID)
    IN  IF parsed.err # NilErr
        THEN Ret(NilPtr, parsed.err)
        ELSE IF <<parsed.nsgId, parsed.ruleId>> \notin rules
        THEN Ret(Ptr(ReadResult(NsgRuleType, <<>>, OperationErrorCodeNotFound)), NilErr)
        ELSE Ret(Ptr(ReadResult(NsgRuleType,
                    [Id |-> parsed.ruleId, NetworkSecurityGroupId |-> parsed.nsgId],
                    OperationErrorCodeNotSet)), NilErr)

\* the operator's calls on the rules the provider holds: the rules, the
\* native ids Create has returned, the native ids List has returned, and
\* the last Read or Delete with the native id it was given
NsgState(rules, created, listed, op, nativeID, ret) == [rules |-> rules, created |-> created, listed |-> listed, op |-> op, nativeID |-> nativeID, ret |-> ret]

\* Create adds a rule to a security group and returns its NativeID
NsgCreate ==
    /\ \E n \in NsgIds, r \in RuleIds :
            /\ <<n, r>> \notin nsg.rules
            /\ nsg' = [nsg EXCEPT !.rules = @ \cup {<<n, r>>},
                                  !.created = @ \cup {CompositeID(n, r)}]
    /\ UNCHANGED <<raw, eh, plg, wrs, poll, seen, opc, cloud, del, apd, reg, cli, tags, upd>>

\* List for a security group
NsgList ==
    /\ \E n \in NsgIds :
            nsg' = [nsg EXCEPT !.listed = @ \cup NetworkSecurityGroupSecurityRuleList(nsg.rules, n)]
    /\ UNCHANGED <<raw, eh, plg, wrs, poll, seen, opc, cloud, del, apd, reg, cli, tags, upd>>

\* Read with a native id that Create or List returned
NsgRead ==
    /\ \E id \in nsg.created \cup nsg.listed :
            nsg' = [nsg EXCEPT !.op = "Read", !.nativeID = id,
                               !.ret = NetworkSecurityGroupSecurityRuleRead(nsg.rules, id)]
    /\ UNCHANGED <<raw, eh, plg, wrs, poll, seen, opc, cloud, del, apd, reg, cli, tags, upd>>

\* Delete with a native id that Create or List returned; the provider
\* answers 404 when it has no such rule
NsgDelete ==
    /\ \E id \in nsg.created \cup nsg.listed :
            LET parsed == parseNativeID(id)
                held == <<parsed.nsgId, parsed.ruleId>> \in nsg.rules
                resp == [err |-> IF held THEN NilErr ELSE NotFoundErr]
            IN  nsg' = [nsg EXCEPT
                            !.op = "Delete", !.nativeID = id,
                            !.ret = NetworkSecurityGroupSecurityRuleDelete(NilErr, parsed.err, resp, id),
                            !.rules = IF parsed.err = NilErr
                                      THEN @ \ {<<parsed.nsgId, parsed.ruleId>>} ELSE @]
    /\ UNCHANGED <<raw, eh, plg, wrs, poll, seen, opc, cloud, del, apd, reg, cli, tags, upd>>

InitNsg ==
    /\ raw = RawIdle
    /\ eh = EhIdle
    /\ plg = PlgIdle
    /\ wrs = <<>>
    /\ poll = PollIdle
    /\ seen = <<>>
    /\ opc = <<>>
    /\ cloud = <<>>
    /\ del = <<>>
    /\ apd = <<>>
    /\ reg = <<>>
    /\ cli = <<>>
    /\ tags = <<>>
    /\ nsg = NsgState({}, {}, {}, "none", <<>>, NoCall)
    /\ upd = <<>>

NextNsg ==
    \/ NsgCreate
    \/ NsgList
    \/ NsgRead
    \/ NsgDelete

SpecNsg == InitNsg /\ [][NextNsg]_vars

\* C27 as claimed: every native id List returns has the format
\* {nsgId}/{ruleId} that Create returns and parseNativeID accepts, so a Read
\* or Delete with a listed id never fails with the invalid-format error.
C27_ListedIdsParse_Original ==
    /\ \A id \in nsg.listed : parseNativeID(id).err = NilErr
    /\ (nsg.op \in {"Read", "Delete"} /\ nsg.nativeID \in nsg.listed) =>
            (nsg.ret.err = NilErr \/ Head(nsg.ret.err).text # "invalid NativeID format")

\* ---------------------------------------------------------------------
\* Concurrent partial updates of one resource: VCNProvisioner.Update
\* (pkg/provisioner/core/vcn.go) over ApplyPatchDocument
\* ---------------------------------------------------------------------

\* the properties of a VCN that Update sends to the provider
VcnFields == {"DisplayName", "FreeformTags"}

\* the properties the provider holds for the VCN: Read reports every one
VcnProps == [VcnFields -> Values]

\* the patch documents of the updates: at most one operation that replaces
\* or removes a property
VcnOperations ==
    {Operation("replace", f, v) : f \in VcnFields, v \in Values}
        \cup {Operation("remove", f, "") : f \in VcnFields}

VcnPatches == {PatchOf(o) : o \in SeqsUpTo(VcnOperations, MaxOps)}

\* util.ExtractString(props, key) and the tag extractors: the value of a
\* key that is there and holds a non-empty value
ExtractString(props, key) ==
    IF props # NilPtr /\ key \in DOMAIN Deref(props) /\ Deref(props)[key] # ""
    THEN [val |-> Deref(props)[key], ok |-> TRUE]
    ELSE [val |-> "", ok |-> FALSE]

\* the update details without the display name
UpdateVcnDetailsWithoutDisplayName(props) ==
    [f \in {g \in VcnFields \ {"DisplayName"} : ExtractString(props, g).ok} |-> ExtractString(props, f).val]

\* core.UpdateVcnDetails as Update fills it: every property it could
\* extract from the patched properties
UpdateVcnDetails(props) ==
    [f \in {g \in VcnFields : ExtractString(props, g).ok} |-> ExtractString(props, f).val]

\* client.UpdateVcn on the provider's side: the properties named in the
\* details are overwritten, the others stay
UpdateVcn(held, details) ==
    Held(held.exists, [f \in DOMAIN held.props |-> IF f \in DOMAIN details THEN details[f] ELSE held.props[f]])

\* VCNProvisioner.Update up to the patched properties: the client, then
\* ApplyPatchDocument with p.Read
VCNUpdatePatched(clientErr, request, readFunc) ==
    IF clientErr # NilErr
    THEN Ret(NilPtr, Errorf("failed to get VirtualNetwork client", clientErr))
    ELSE ApplyPatchDocument(request, readFunc).ret

\* VCNProvisioner.Update from the answer of client.UpdateVcn on
VCNUpdateResult(respErr, nativeID) ==
    IF respErr # NilErr
    THEN Ret(NilPtr, Errorf("failed to update VCN", respErr))
    ELSE Ret(Ptr(ProgressResult(OperationUpdate, OperationStatusSuccess, OperationErrorCodeNotSet, "", nativeID, "", <<>>)), NilErr)

\* one Update in flight: where it is, its request, the properties Read gave
\* it, how many writes had reached the provider when it read, its patched
\* properties and what it returned
UpdCall(pc, request, snap, readAt, props, ret) == [pc |-> pc, request |-> request, snap |-> snap, readAt |-> readAt, props |-> props, ret |-> ret]

\* the updates of the callers and the callers whose write the provider
\* accepted, in the order of the writes
Updates(calls, writes) == [calls |-> calls, writes |-> writes]

\* an Update reads the resource and patches the snapshot
UpdRead(p) ==
    /\ upd.calls[p].pc = "start"
    /\ \E clientErr \in {NilErr, TransportErr}, transport \in BOOLEAN :
            LET c == upd.calls[p]
                patched == VCNUpdatePatched(clientErr, c.request, ReadFunc(cloud, transport))
            IN  upd' = [upd EXCEPT !.calls[p] =
                            IF patched.err # NilErr
                            THEN UpdCall("done", c.request, <<>>, Len(upd.writes), NilPtr, patched)
                            ELSE UpdCall("patched", c.request, cloud.props, Len(upd.writes), patched.res, NoCall)]
    /\ UNCHANGED <<raw, eh, plg, wrs, poll, seen, opc, cloud, del, apd, reg, cli, tags, nsg>>

\* the Update sends its details and the provider accepts them
UpdWrite(p) ==
    /\ upd.calls[p].pc = "patched"
    /\ cloud' = UpdateVcn(cloud, UpdateVcnDetails(upd.calls[p].props))
    /\ upd' = [upd EXCEPT !.calls[p].pc = "done",
                          !.calls[p].ret = VCNUpdateResult(NilErr, upd.calls[p].request.NativeID),
                          !.writes = Append(@, p)]
    /\ UNCHANGED <<raw, eh, plg, wrs, poll, seen, opc, del, apd, reg, cli, tags, nsg>>

\* the Update sends its details and the call does not get through
UpdWriteFails(p) ==
    /\ upd.calls[p].pc = "patched"
    /\ upd' = [upd EXCEPT !.calls[p].pc = "done",
                          !.calls[p].ret = VCNUpdateResult(TransportErr, upd.calls[p].request.NativeID)]
    /\ UNCHANGED <<raw, eh, plg, wrs, poll, seen, opc, cloud, del, apd, reg, cli, tags, nsg>>

InitUpdates ==
    /\ raw = RawIdle
    /\ eh = EhIdle
    /\ plg = PlgIdle
    /\ wrs = <<>>
    /\ poll = PollIdle
    /\ seen = <<>>
    /\ opc = <<>>
    /\ \E m \in VcnProps : cloud = Held(TRUE, m)
    /\ del = <<>>
    /\ apd = <<>>
    /\ reg = <<>>
    /\ cli = <<>>
    /\ tags = <<>>
    /\ nsg = <<>>
    /\ \E pd \in [Callers -> VcnPatches] :
            upd = Updates([p \in Callers |->
                        UpdCall("start", UpdateRequest(TargetID, VCNType, "cfg", JsonNull, Ptr(pd[p])), <<>>, 0, NilPtr, NoCall)],
                     <<>>)

NextUpdates ==
    \/ \E p \in Callers : UpdRead(p)
    \/ \E p \in Callers : UpdWrite(p)
    \/ \E p \in Callers : UpdWriteFails(p)

SpecUpdates == InitUpdates /\ [][NextUpdates]_vars

\* the properties a patch document names
UpdTouched(p) == {Deref(upd.calls[p].request.PatchDocument).ops[i].path : i \in 1..Len(Deref(upd.calls[p].request.PatchDocument).ops)}

\* both updates read before either wrote and the provider accepted both
\* writes
UpdBothReadFirst ==
    /\ Len(upd.writes) = 2
    /\ \A p \in Callers : upd.calls[p].pc = "done" /\ upd.calls[p].readAt = 0

\* C29: when two updates with patch documents on one resource both read
\* before either writes, both have read the same snapshot, both return
\* Success without error, and the resource ends as the later write leaves
\* it: every property the later patch did not name holds its value of the
\* snapshot again, whatever the earlier update wrote, and every property
\* the later patch replaced holds the later value.
C29_LastWriteWins ==
    UpdBothReadFirst =>
        LET first == upd.writes[1]
            last == upd.writes[2]
            snap == upd.calls[last].snap
        IN  /\ upd.calls[first].snap = snap
            /\ \A p \in Callers :
                    /\ upd.calls[p].ret.err = NilErr
                    /\ upd.calls[p].ret.res # NilPtr
                    /\ Deref(upd.calls[p].ret.res).OperationStatus = OperationStatusSuccess
            /\ \A f \in VcnFields \ UpdTouched(last) : cloud.props[f] = snap[f]
            /\ \A f \in UpdTouched(last) :
                    f \in DOMAIN Deref(upd.calls[last].props) =>
                        cloud.props[f] = Deref(upd.calls[last].props)[f]

\* both read first, the earlier update changed a property the later patch
\* does not name, and that property holds its old value again
C29_Witness ==
    /\ UpdBothReadFirst
    /\ \E f \in VcnFields \ UpdTouched(upd.writes[2]) :
            /\ f \in UpdTouched(upd.writes[1])
            /\ f \in DOMAIN Deref(upd.calls[upd.writes[1]].props)
            /\ Deref(upd.calls[upd.writes[1]].props)[f] # upd.calls[upd.writes[1]].snap[f]
            /\ cloud.props[f] = upd.calls[upd.writes[1]].snap[f]
    /\ \A p \in Callers : upd.calls[p].ret.err = NilErr

====
